---- MODULE Spec2Model ----
(***************************************************************************)
(* SpineFrame sync agent: the folder watcher (FileWatcherService), the     *)
(* inbound orchestrator (SyncService) and the outbound orchestrator        *)
(* (ExportService), as state machines of the single-threaded event loop.   *)
(* One action is one event-loop task: a handler runs from the event that   *)
(* starts it to its next await of a remote call or a timer.                *)
(***************************************************************************)
EXTENDS Integers, Sequences, FiniteSets, TLC

\* ------------------------------------------------------------------ bounds
NumFiles == 2          \* paths of the watch folder
MaxMessages == 2       \* messages in the longest file (file 1)
MaxRetriesCfg == 2     \* config.behavior.maxRetries ranges over 0..MaxRetriesCfg
MaxSyncNow == 1        \* manual "sync now" re-scans
MaxFsFaults == 1       \* unlink/rename calls that fail although the file is there
MaxPolls == 2          \* export poll cycles started
MaxClaims == 2         \* claims in one pending-exports response
MaxAdtExports == 1     \* records in one pending-adt-exports response
MaxAdtBatch == 2       \* the same, when the insurance-update half is looked at alone
ClaimIdLen == 7        \* characters of a claim id
MaxDg1 == 2             \* DG1 segments of a charge message
MaxFt1 == 2             \* FT1 segments of a charge message
MaxBillingCodes == 2    \* billing codes of an export claim
MaxDiagnosisCodes == 2  \* diagnosis codes of an export claim
MaxBatchMessages == 2   \* messages of a batch file handed to splitHL7Batch

Files == 1..NumFiles
MsgIdx == 1..MaxMessages

\* splitHL7Batch(readFileSync(p)).length : file 1 is a batch, the others hold one message
messages(p) == IF p = 1 THEN MaxMessages ELSE 1
\* fs.statSync(p).birthtime : file 1 is the oldest
createdAt(p) == p

VARIABLES
  \* configuration snapshot (fixed after Init)
  watcherImpl,      \* "plain": services/fileWatcher.ts, "tracked": the variant with processedFiles
  maxRetries, deleteAfterSync, moveToProcessed, failedFolder,
  fileSize,         \* fs.statSync(p).size of the file created at path p, in bytes
  \* file system
  loc,              \* where the file created at path p is now
  locked,           \* paths a producer still holds open
  \* FileWatcherService
  pendingAdds,      \* chokidar 'add' notifications not yet delivered
  pendingFiles,     \* paths with a debounce timer
  lockTimers,       \* per path, the re-validation timers of locked files
  processingQueue, processedFiles,
  \* SyncService
  isPaused, retryCount, retryTimers,
  inflight,         \* per path and message, the processFile runs awaiting that remote call
  syncedToday, errorsToday,
  \* observation (no code reads these)
  acked,            \* messages whose remote call returned successfully
  resubmitted,      \* paths of which an acknowledged message was submitted again
  failCount, okCount, \* per path, handleFailedFile calls / attempts that ended file-synced
  permFailed, fileFailed, \* permanent-failure branch entered / 'file-failed' emitted
  handed,           \* paths passed to SyncService.processFile at least once
  handoffLog,       \* the watcher's 'file-processing' emissions, in order
  dupTimers, dupLock, dupAttempt, \* timers armed by a re-delivery during flight, and their attempts
  syncNows, fsFaults,
  pausedReturns,    \* paths a remote call of which settled while the service was paused
  \* ExportService
  adtEnabled,       \* config.export.adt.enabled !== false
  exportPaused,     \* ExportService.isPaused
  polls,            \* the poll cycles: where each pollForExports call stands, its locals
  pollsStarted,
  exportedToday, exportErrorsToday,
  exportActivity,   \* ExportService.activityLog, newest first
  disk,             \* names of the files in the export output folder
  diskWrites,       \* fs.writeFileSync calls that wrote an export file
  now,              \* wall clock, in seconds
  \* the remote side, and observation
  nextFetchId,      \* the next correlation id the remote side hands out
  fetchLog,         \* pending-exports / pending-adt-exports responses that carried records
  confirmCalls,     \* confirmExport / confirmAdtExport requests, in order
  markCalls,        \* markExported requests, in order
  confirmThrows,    \* confirm calls that threw
  claimsWritten,    \* claim files written by batches whose processExports has ended
  adtWritten,       \* insurance-update files written
  \* export file naming
  fileNamePattern,  \* config.export.fileNamePattern, as the pieces replace() looks for
  batch,            \* the records of a batch whose files are written within one second
  batchNames,       \* the file names given to the records of batch written so far
  \* heartbeat
  apiKey,           \* config.api.apiKey, as a sequence of characters
  heartbeats,       \* the SyncService.sendHeartbeat calls: where each stands, what it emitted
  \* FileWatcherService with a processing callback registered
  fileProcessCallback, \* a callback was given to setFileProcessCallback
  isProcessing,     \* FileWatcherService.isProcessing
  callbackRuns,     \* the path the awaited callback is working on, 0 when none
  immediates,       \* setImmediate(processNextFile) calls not yet run
  renotified,       \* 'add' notifications chokidar repeated for a file already announced
  \* observation of the export orchestrator
  legacyLog,        \* pending-exports responses that carried claims and no correlation id
  batchLog,         \* the batches fetched under a correlation id: what the loop met
  adtPollErrors,    \* the failures of getPendingAdtExports, by poll cycle
  \* ExportService start / stop
  startCalls,       \* the start() calls: where each stands in waitForFolderAccess
  pollInterval,     \* ExportService.pollInterval: the id of its interval timer, 0 for null
  intervals,        \* the interval timers alive in the runtime
  stops,            \* stop() calls made
  stopReturned,     \* stop() has returned and start() was not called since
  pollAfterStop,    \* a poll was initiated while stopReturned
  \* the HL7 codec (hl7Parser.ts, hl7Generator.ts)
  exportClaim,      \* the claim handed to generateDFTP03
  rawText,          \* an HL7 text, as a sequence of pieces
  encounter,        \* what parseEncounterFromDFT(parseHL7(rawText)) returned
  batchInput,       \* the messages a batch file was concatenated from
  batchMessages,    \* what splitHL7Batch returned
  codecPc,          \* where the codec run stands
  \* FileWatcherService timers, one by one
  debounceTimers,   \* the debounce timers alive in the runtime: path and number
  pendingTimer,     \* per path, the timer FileWatcherService.pendingFiles holds, 0 for none
  notified,         \* per path, the 'add' notifications delivered so far
  validated,        \* the validations debounce timers started: path, timer, newest notification
  watcher,          \* FileWatcherService.watcher: "watching", "closing" (stop awaits close), "null"
  stopCalls,        \* FileWatcherService.stop() calls that returned
  afterStop,        \* files queued or handed off while the watcher was stopped
  fileContent,      \* processFile: the messages splitHL7Batch returned for the file
  run,              \* processFile: where its loop stands, the remote calls that returned,
                    \* the skipped messages, errorsToday, the file's ledger count
  activityLog       \* SyncService.activityLog, newest first

exportVars == <<adtEnabled, exportPaused, polls, pollsStarted, exportedToday,
                exportErrorsToday, exportActivity, disk, diskWrites, now, nextFetchId,
                fetchLog, confirmCalls, markCalls, confirmThrows, claimsWritten,
                adtWritten>>
cfgVars == <<watcherImpl, maxRetries, deleteAfterSync, moveToProcessed, failedFolder,
             fileSize>>
watcherVars == <<pendingAdds, pendingFiles, lockTimers, processingQueue, processedFiles,
                 handoffLog, dupTimers, dupLock, dupAttempt>>
syncVars == <<loc, retryCount, retryTimers, inflight, syncedToday, errorsToday, acked,
              resubmitted, failCount, okCount, permFailed, fileFailed, handed, fsFaults>>
envVars == <<locked, isPaused, syncNows>>
nameVars == <<batch, batchNames>>
hbVars == <<apiKey, heartbeats>>
cbVars == <<fileProcessCallback, isProcessing, callbackRuns, immediates, renotified>>
lifeVars == <<startCalls, pollInterval, intervals, stops, stopReturned, pollAfterStop>>
codecVars == <<exportClaim, rawText, encounter, batchInput, batchMessages, codecPc>>
timerVars == <<debounceTimers, pendingTimer, notified, validated, watcher, stopCalls,
               afterStop>>
msgVars == <<fileContent, run, activityLog>>
auxVars == <<fileNamePattern, nameVars, hbVars, cbVars, legacyLog, batchLog, adtPollErrors,
             lifeVars, codecVars, timerVars, msgVars>>
vars == <<cfgVars, watcherVars, syncVars, envVars, exportVars, auxVars, pausedReturns>>

\* ------------------------------------------------------------ SyncService
\* The fields the processFile handlers read and write, as one value.
SyncState ==
  [loc |-> loc, retryCount |-> retryCount, retryTimers |-> retryTimers,
   inflight |-> inflight, syncedToday |-> syncedToday, errorsToday |-> errorsToday,
   acked |-> acked, resubmitted |-> resubmitted, failCount |-> failCount,
   okCount |-> okCount, permFailed |-> permFailed, fileFailed |-> fileFailed,
   handed |-> handed, fsFaults |-> fsFaults]

SetSyncState(s) ==
  /\ loc' = s.loc /\ retryCount' = s.retryCount /\ retryTimers' = s.retryTimers
  /\ inflight' = s.inflight /\ syncedToday' = s.syncedToday /\ errorsToday' = s.errorsToday
  /\ acked' = s.acked /\ resubmitted' = s.resubmitted /\ failCount' = s.failCount
  /\ okCount' = s.okCount /\ permFailed' = s.permFailed /\ fileFailed' = s.fileFailed
  /\ handed' = s.handed /\ fsFaults' = s.fsFaults

InFlight(p) == \E i \in MsgIdx : inflight[p][i] > 0

\* fs.unlinkSync / fs.renameSync of the watch-folder file p: it throws when the file is
\* no longer there, or when the call fails (fsOk = FALSE).
FsMoves(s, p, fsOk) == s.loc[p] = "watch" /\ fsOk
FsFault(s, p, fsOk) == IF s.loc[p] = "watch" /\ ~fsOk THEN s.fsFaults + 1 ELSE s.fsFaults

\* handleFailedFile comparing the count after the increment with maxRetries
handleFailedFileCountsFirst(s, p, fsOk) ==
  LET currentRetries == s.retryCount[p] + 1
      s1 == [s EXCEPT !.errorsToday = @ + 1, !.failCount[p] = @ + 1]
  IN IF currentRetries < maxRetries
       THEN [s1 EXCEPT !.retryCount[p] = currentRetries,
                       !.retryTimers[p] = @ + 1]
       ELSE LET s2 == [s1 EXCEPT !.retryCount[p] = 0, !.permFailed = @ \cup {p}]
            IN IF failedFolder
                 THEN IF FsMoves(s2, p, fsOk)
                        THEN [s2 EXCEPT !.loc[p] = "failed", !.fileFailed = @ \cup {p}]
                        ELSE [s2 EXCEPT !.fsFaults = FsFault(s2, p, fsOk)]
                 ELSE [s2 EXCEPT !.fileFailed = @ \cup {p}]

\* handleFailedFile scheduling a retry also when the count has reached maxRetries
handleFailedFileRetriesAtMax(s, p, fsOk) ==
  LET currentRetries == s.retryCount[p]
      s1 == [s EXCEPT !.errorsToday = @ + 1, !.failCount[p] = @ + 1]
  IN IF currentRetries <= maxRetries
       THEN [s1 EXCEPT !.retryCount[p] = currentRetries + 1,
                       !.retryTimers[p] = @ + 1]
       ELSE LET s2 == [s1 EXCEPT !.retryCount[p] = 0, !.permFailed = @ \cup {p}]
            IN IF failedFolder
                 THEN IF FsMoves(s2, p, fsOk)
                        THEN [s2 EXCEPT !.loc[p] = "failed", !.fileFailed = @ \cup {p}]
                        ELSE [s2 EXCEPT !.fsFaults = FsFault(s2, p, fsOk)]
                 ELSE [s2 EXCEPT !.fileFailed = @ \cup {p}]

\* SyncService.handleFailedFile
handleFailedFile(s, p, fsOk) ==
  LET currentRetries == s.retryCount[p]
      s1 == [s EXCEPT !.errorsToday = @ + 1, !.failCount[p] = @ + 1]
  IN IF currentRetries < maxRetries
       THEN [s1 EXCEPT !.retryCount[p] = currentRetries + 1,
                       !.retryTimers[p] = @ + 1]
       ELSE LET s2 == [s1 EXCEPT !.retryCount[p] = 0, !.permFailed = @ \cup {p}]
            IN IF failedFolder
                 THEN IF FsMoves(s2, p, fsOk)
                        THEN [s2 EXCEPT !.loc[p] = "failed", !.fileFailed = @ \cup {p}]
                        ELSE [s2 EXCEPT !.fsFaults = FsFault(s2, p, fsOk)]
                 ELSE [s2 EXCEPT !.fileFailed = @ \cup {p}]

\* handleSuccessfulFile without its retryCount.delete
handleSuccessfulFileKeepsLedger(s, p, fsOk) ==
  IF deleteAfterSync
    THEN IF FsMoves(s, p, fsOk)
           THEN [s |-> [s EXCEPT !.loc[p] = "deleted"], threw |-> FALSE]
           ELSE [s |-> [s EXCEPT !.fsFaults = FsFault(s, p, fsOk)], threw |-> TRUE]
    ELSE IF moveToProcessed
           THEN IF FsMoves(s, p, fsOk)
                  THEN [s |-> [s EXCEPT !.loc[p] = "processed"], threw |-> FALSE]
                  ELSE [s |-> [s EXCEPT !.fsFaults = FsFault(s, p, fsOk)], threw |-> TRUE]
           ELSE [s |-> s, threw |-> FALSE]

\* SyncService.handleSuccessfulFile: the state it leaves and whether it threw
handleSuccessfulFile(s, p, fsOk) ==
  LET s1 == [s EXCEPT !.retryCount[p] = 0]
  IN IF deleteAfterSync
       THEN IF FsMoves(s1, p, fsOk)
              THEN [s |-> [s1 EXCEPT !.loc[p] = "deleted"], threw |-> FALSE]
              ELSE [s |-> [s1 EXCEPT !.fsFaults = FsFault(s1, p, fsOk)], threw |-> TRUE]
       ELSE IF moveToProcessed
              THEN IF FsMoves(s1, p, fsOk)
                     THEN [s |-> [s1 EXCEPT !.loc[p] = "processed"], threw |-> FALSE]
                     ELSE [s |-> [s1 EXCEPT !.fsFaults = FsFault(s1, p, fsOk)], threw |-> TRUE]
              ELSE [s |-> s1, threw |-> FALSE]

\* processHL7Message up to its await: the remote call of message i is issued
sendMessage(s, p, i) ==
  [s EXCEPT !.inflight[p][i] = @ + 1,
            !.resubmitted = IF i \in s.acked[p] THEN @ \cup {p} ELSE @]

\* processFile without its isPaused check
processFileIgnoresPause(s, p) ==
  sendMessage([s EXCEPT !.handed = @ \cup {p}], p, 1)

\* SyncService.processFile from its call to its first await
processFile(s, p) ==
  IF isPaused
    THEN [s EXCEPT !.handed = @ \cup {p}]
    ELSE sendMessage([s EXCEPT !.handed = @ \cup {p}], p, 1)

\* processFile going on with the next message after a failed one
resumeProcessFileSkipsFailure(s, p, i, ok, fsOk) ==
  LET s1 == [s EXCEPT !.inflight[p][i] = @ - 1]
      s2 == IF ok THEN [s1 EXCEPT !.acked[p] = @ \cup {i}] ELSE s1
  IN IF i < messages(p)
       THEN sendMessage(s2, p, i + 1)
       ELSE LET r == handleSuccessfulFile(s2, p, fsOk)
            IN IF r.threw
                 THEN handleFailedFile(r.s, p, fsOk)
                 ELSE [r.s EXCEPT !.syncedToday = @ + 1, !.okCount[p] = @ + 1]

\* SyncService.processFile after the remote call of message i returned
resumeProcessFile(s, p, i, ok, fsOk) ==
  LET s1 == [s EXCEPT !.inflight[p][i] = @ - 1]
  IN IF ~ok
       THEN handleFailedFile(s1, p, fsOk)
       ELSE LET s2 == [s1 EXCEPT !.acked[p] = @ \cup {i}]
            IN IF i < messages(p)
                 THEN sendMessage(s2, p, i + 1)
                 ELSE LET r == handleSuccessfulFile(s2, p, fsOk)
                      IN IF r.threw
                           THEN handleFailedFile(r.s, p, fsOk)
                           ELSE [r.s EXCEPT !.syncedToday = @ + 1, !.okCount[p] = @ + 1]

\* ---------------------------------------------------- FileWatcherService
FileEvent(p) == [filePath |-> p, createdAt |-> createdAt(p)]

\* Array.prototype.sort by createdAt (stable): insert e after the entries not younger
RECURSIVE InsertSorted(_, _)
InsertSorted(q, e) ==
  IF q = <<>> THEN <<e>>
  ELSE IF Head(q).createdAt <= e.createdAt
         THEN <<Head(q)>> \o InsertSorted(Tail(q), e)
         ELSE <<e>> \o q

MAX_FILE_SIZE == 10 * 1024 * 1024

\* FileWatcherService.onFileAdded: is the notification dropped?
onFileAddedSkips(p) == watcherImpl = "tracked" /\ p \in processedFiles

\* FileWatcherService.validateAndQueueFile with the processNextFile call that ends it.
\* lt, dl: the re-validation timers left when it runs; dup: the timer that runs it was
\* armed by a re-delivery during flight. processNextFile finds isProcessing = false
\* (it is reset before the emitting call returns) and takes the head of the queue.
validateAndQueueFile(p, lt, dl, dup) ==
  IF loc[p] # "watch"
    THEN /\ lockTimers' = lt /\ dupLock' = dl
         /\ UNCHANGED <<processingQueue, processedFiles, handoffLog, dupAttempt, syncVars>>
  ELSE IF fileSize[p] > MAX_FILE_SIZE
    THEN /\ lockTimers' = lt /\ dupLock' = dl
         /\ UNCHANGED <<processingQueue, processedFiles, handoffLog, dupAttempt, syncVars>>
  ELSE IF p \in locked
    THEN /\ lockTimers' = [lt EXCEPT ![p] = @ + 1]
         /\ dupLock' = [dl EXCEPT ![p] = IF dup THEN @ + 1 ELSE @]
         /\ UNCHANGED <<processingQueue, processedFiles, handoffLog, dupAttempt, syncVars>>
  ELSE LET queue == InsertSorted(processingQueue, FileEvent(p))
           fileEvent == Head(queue)
       IN /\ processingQueue' = Tail(queue)
          /\ processedFiles' = IF watcherImpl = "tracked"
                                 THEN processedFiles \cup {fileEvent.filePath}
                                 ELSE processedFiles
          /\ handoffLog' = Append(handoffLog, fileEvent.filePath)
          /\ dupAttempt' = IF dup /\ ~isPaused THEN dupAttempt \cup {p} ELSE dupAttempt
          /\ SetSyncState(processFile(SyncState, fileEvent.filePath))
          /\ lockTimers' = lt /\ dupLock' = dl

\* ------------------------------------------------------------------ actions
\* chokidar delivers 'add' for p: onFileAdded
WatcherAdd(p) ==
  /\ p \in pendingAdds
  /\ pendingAdds' = pendingAdds \ {p}
  /\ IF onFileAddedSkips(p)
       THEN UNCHANGED <<pendingFiles, dupTimers>>
       ELSE /\ pendingFiles' = pendingFiles \cup {p}
            /\ dupTimers' = IF InFlight(p) THEN dupTimers \cup {p} ELSE dupTimers \ {p}
  /\ UNCHANGED <<cfgVars, auxVars, pausedReturns, exportVars, lockTimers, processingQueue, processedFiles, handoffLog,
                 dupLock, dupAttempt, syncVars, envVars>>

\* the debounce timer of p fires
DebounceFire(p) ==
  /\ p \in pendingFiles
  /\ pendingFiles' = pendingFiles \ {p}
  /\ dupTimers' = dupTimers \ {p}
  /\ validateAndQueueFile(p, lockTimers, dupLock, p \in dupTimers)
  /\ UNCHANGED <<cfgVars, auxVars, pausedReturns, exportVars, pendingAdds, envVars>>

\* a re-validation timer of the locked file p fires (one of those a re-delivery
\* armed when dup, one of the others when not)
LockTimerFire(p, dup) ==
  /\ IF dup THEN dupLock[p] > 0 ELSE lockTimers[p] > dupLock[p]
  /\ validateAndQueueFile(p, [lockTimers EXCEPT ![p] = @ - 1],
                          [dupLock EXCEPT ![p] = IF dup THEN @ - 1 ELSE @], dup)
  /\ UNCHANGED <<cfgVars, auxVars, pausedReturns, exportVars, pendingAdds, pendingFiles, dupTimers, envVars>>

\* the remote call of message i of a run of p returns (ok) or throws
RemoteReturn(p, i, ok, fsOk) ==
  /\ inflight[p][i] > 0
  /\ fsOk \/ fsFaults < MaxFsFaults
  /\ SetSyncState(resumeProcessFile(SyncState, p, i, ok, fsOk))
  /\ pausedReturns' = IF isPaused THEN pausedReturns \cup {p} ELSE pausedReturns
  /\ UNCHANGED <<cfgVars, auxVars, exportVars, watcherVars, envVars>>

\* the 5 s retry timer of handleFailedFile fires
RetryTimerFire(p) ==
  /\ retryTimers[p] > 0
  /\ LET s == [SyncState EXCEPT !.retryTimers[p] = @ - 1]
     IN IF loc[p] = "watch"
          THEN SetSyncState(processFile(s, p))
          ELSE SetSyncState(s)
  /\ UNCHANGED <<cfgVars, auxVars, pausedReturns, exportVars, watcherVars, envVars>>

\* SyncService.syncNow: fileWatcher.stop() then start(), whose initial scan
\* notifies every file of the watch folder again
SyncNow ==
  /\ syncNows < MaxSyncNow
  /\ syncNows' = syncNows + 1
  /\ pendingFiles' = {}
  /\ dupTimers' = {}
  /\ pendingAdds' = {p \in Files : loc[p] = "watch"}
  /\ UNCHANGED <<cfgVars, auxVars, pausedReturns, exportVars, lockTimers, processingQueue, processedFiles, handoffLog,
                 dupLock, dupAttempt, syncVars, locked, isPaused>>

\* SyncService.pause
Pause ==
  /\ ~isPaused
  /\ isPaused' = TRUE
  /\ UNCHANGED <<cfgVars, auxVars, pausedReturns, exportVars, watcherVars, syncVars, locked, syncNows>>

\* SyncService.resume
Resume ==
  /\ isPaused
  /\ isPaused' = FALSE
  /\ UNCHANGED <<cfgVars, auxVars, pausedReturns, exportVars, watcherVars, syncVars, locked, syncNows>>

\* the producer closes the file
Unlock(p) ==
  /\ p \in locked
  /\ locked' = locked \ {p}
  /\ UNCHANGED <<cfgVars, auxVars, pausedReturns, exportVars, watcherVars, syncVars, isPaused, syncNows>>

\* --------------------------------------------------------- ExportService
\* String.prototype.includes
includes(s, needle) ==
  \E k \in 1..(Len(s) - Len(needle) + 1) : SubSeq(s, k, k + Len(needle) - 1) = needle

ExportActivityCap == 50

IdlePoll == [pc |-> "idle", fetchId |-> 0, results |-> <<>>]
DonePoll == [pc |-> "done", fetchId |-> 0, results |-> <<>>]

\* ExportService.addActivity
exportAddActivity(log, type, message) ==
  LET l == <<[type |-> type, message |-> message]>> \o log
  IN IF Len(l) > ExportActivityCap THEN SubSeq(l, 1, ExportActivityCap) ELSE l

\* Strings are sequences of pieces: a placeholder or extension that replace() looks
\* for, a literal, or one character of an id.
PatternDefault == <<"DFT_", "{clinicCode}", "_", "{timestamp}", ".hl7">>
Chars == {"a", "b"}
ClaimIds == [1..ClaimIdLen -> Chars]
SuffixLen == 6

\* String.prototype.replace(piece, by): the first occurrence only
RECURSIVE replace(_, _, _)
replace(s, piece, by) ==
  IF s = <<>> THEN <<>>
  ELSE IF Head(s) = piece THEN by \o Tail(s)
  ELSE <<Head(s)>> \o replace(Tail(s), piece, by)

\* claimId.substring(claimId.length - 6): a negative start counts as 0
substringFrom(s, start) == SubSeq(s, (IF start < 0 THEN 0 ELSE start) + 1, Len(s))

\* new Date().toISOString() cut to the second
timestamp == <<ToString(now)>>

\* ExportService.generateFileName
generateFileName(clinicCode, claimId) ==
  LET claimSuffix == IF claimId # <<>>
                       THEN <<"_">> \o substringFrom(claimId, Len(claimId) - SuffixLen)
                       ELSE <<>>
      pattern == IF fileNamePattern # <<>> THEN fileNamePattern ELSE PatternDefault
  IN replace(replace(replace(pattern, "{clinicCode}", <<clinicCode>>),
                     "{timestamp}", timestamp),
             ".hl7", claimSuffix \o <<".hl7">>)

\* ExportService.generateAdtFileName
generateAdtFileName(proclaimPatientRecord) ==
  <<"ADT_A08_", proclaimPatientRecord, "_">> \o timestamp \o <<".hl7">>

\* the records of the responses of the poll cycles: claim i of a response has the id
\* claimIdOf(i), insurance update i is about the patient patientOf(i)
claimIdOf(i) == [k \in 1..ClaimIdLen |-> IF k = ClaimIdLen + 1 - i THEN "b" ELSE "a"]
patientOf(i) == ToString(i)
ClinicCode == "CLINIC"

SuccessCount(results) == Cardinality({i \in 1..Len(results) : results[i].success})
FailCount(results) == Len(results) - SuccessCount(results)

\* a confirm request that carries the id of the fetch before its own
confirmRequestStaleId(endpoint, fetchId, results) ==
  [endpoint |-> endpoint, fetchId |-> IF fetchId > 1 THEN fetchId - 1 ELSE fetchId,
   results |-> results]

\* SpineFrameApiClient.confirmExport / confirmAdtExport: the request posted
confirmRequest(endpoint, fetchId, results) ==
  [endpoint |-> endpoint, fetchId |-> fetchId, results |-> results]

\* the loop of processExports leaving at the first record it cannot write
ExportResultsAbort(n, written) ==
  LET failed == (1..n) \ written
      last == IF failed = {} THEN n ELSE CHOOSE i \in failed : \A j \in failed : i <= j
  IN [i \in 1..last |-> [id |-> i, success |-> i \in written]]

\* the per-record loop of processExports / processAdtExports: one result per record,
\* in fetch order; record i is written iff i \in written
ExportResults(n, written) == [i \in 1..n |-> [id |-> i, success |-> i \in written]]

\* the claimIds of a markExported request that names every claim of the batch
successfulClaimIdsAll(results) == {results[i].id : i \in 1..Len(results)}

\* processExports, legacy branch: results.filter(r => r.success).map(r => r.claimId)
successfulClaimIds(results) ==
  {results[i].id : i \in {k \in 1..Len(results) : results[k].success}}

\* the loop of processAdtExports leaving at the first record it cannot write
RECURSIVE AdtExportResultsAbort(_, _, _)
AdtExportResultsAbort(n, missing, unwritable) ==
  IF n = 0 THEN <<>>
  ELSE LET before == AdtExportResultsAbort(n - 1, missing, unwritable)
       IN IF Len(before) < n - 1 \/ (n - 1) \in (missing \cup unwritable)
            THEN before
            ELSE Append(before, [id |-> n, success |-> n \notin (missing \cup unwritable)])

\* the loop of processAdtExports: the throw of a record without proclaimPatientRecord,
\* or of generateADTA08 / writeFileSync, is caught inside the loop body
RECURSIVE AdtExportResults(_, _, _)
AdtExportResults(n, missing, unwritable) ==
  IF n = 0 THEN <<>>
  ELSE Append(AdtExportResults(n - 1, missing, unwritable),
              [id |-> n, success |-> IF n \in missing THEN FALSE ELSE n \notin unwritable])

\* the activity items that end processExports / processAdtExports
batchActivity(log, results, okMessage, allFailedMessage) ==
  LET l1 == IF SuccessCount(results) > 0
              THEN exportAddActivity(log, "success", okMessage) ELSE log
  IN IF FailCount(results) > 0 /\ SuccessCount(results) = 0
       THEN exportAddActivity(l1, "error", allFailedMessage) ELSE l1

\* pollForExports after its claims half: the insurance-update poll, when enabled
afterClaimsPoll == IF adtEnabled
                     THEN [pc |-> "getPendingAdtExports", fetchId |-> 0, results |-> <<>>]
                     ELSE DonePoll

\* a catch of the claims half that returns from pollForExports
afterPollFailedEndsCycle == DonePoll

\* pollForExports after the catch of its claims half (the catch falls through)
afterPollFailed == afterClaimsPoll

\* processExports from "Update stats" to its end, with log the activity log so far
finishProcessExports(c, results, log) ==
  /\ exportedToday' = exportedToday + SuccessCount(results)
  /\ exportErrorsToday' = exportErrorsToday + FailCount(results)
  /\ exportActivity' = batchActivity(log, results, "Exported claim(s)",
                                     "All claims failed to export")
  /\ claimsWritten' = claimsWritten + SuccessCount(results)
  /\ polls' = [polls EXCEPT ![c] = afterClaimsPoll]

\* the setInterval callback of startPolling (and its initial call): pollForExports
\* up to its first await. The clock is read in whole seconds and two ticks are at
\* least a second apart.
PollTick ==
  /\ pollsStarted < MaxPolls
  /\ pollsStarted' = pollsStarted + 1
  /\ now' = now + 1
  /\ polls' = [polls EXCEPT ![pollsStarted + 1] =
                 IF exportPaused THEN DonePoll
                 ELSE [pc |-> "getPendingExports", fetchId |-> 0, results |-> <<>>]]
  /\ UNCHANGED <<cfgVars, auxVars, pausedReturns, watcherVars, syncVars, envVars, adtEnabled, exportPaused,
                 exportedToday, exportErrorsToday, exportActivity, disk, diskWrites, nextFetchId,
                 fetchLog, confirmCalls, markCalls, confirmThrows, claimsWritten,
                 adtWritten>>

\* getPendingExports returns n claims, with a fresh fetchId unless legacy; processExports
\* runs its loop (the claims of `written` get their file) up to the await of
\* confirmExport or markExported
PendingExportsReturn(c, n, legacy, written) ==
  /\ polls[c].pc = "getPendingExports"
  /\ LET fetchId == IF legacy THEN 0 ELSE nextFetchId
         results == ExportResults(n, written)
     IN /\ nextFetchId' = IF legacy \/ n = 0 THEN nextFetchId ELSE nextFetchId + 1
        /\ fetchLog' = IF n > 0 /\ ~legacy
                         THEN fetchLog \cup {[endpoint |-> "confirm-export", fetchId |-> fetchId,
                                              poll |-> c, count |-> n]}
                         ELSE fetchLog
        /\ batchLog' = IF n > 0 /\ ~legacy
                          THEN batchLog \cup {[endpoint |-> "confirm-export", fetchId |-> fetchId,
                                                poll |-> c, count |-> n, missing |-> {},
                                                written |-> written]}
                          ELSE batchLog
        /\ legacyLog' = IF n > 0 /\ legacy
                           THEN legacyLog \cup {[poll |-> c, count |-> n, writtenIds |-> written]}
                           ELSE legacyLog
        /\ disk' = disk \cup {generateFileName(ClinicCode, claimIdOf(i)) : i \in written}
        /\ diskWrites' = diskWrites + Cardinality(written)
        /\ IF n = 0
             THEN /\ polls' = [polls EXCEPT ![c] = afterClaimsPoll]
                  /\ UNCHANGED <<confirmCalls, markCalls, exportedToday, exportErrorsToday,
                                 exportActivity, claimsWritten>>
           ELSE IF fetchId # 0
             THEN /\ confirmCalls' = Append(confirmCalls,
                        [poll |-> c,
                         request |-> confirmRequest("confirm-export", fetchId, results)])
                  /\ polls' = [polls EXCEPT ![c] = [pc |-> "confirmExport",
                                  fetchId |-> fetchId, results |-> results]]
                  /\ UNCHANGED <<markCalls, exportedToday, exportErrorsToday,
                                 exportActivity, claimsWritten>>
           ELSE IF SuccessCount(results) > 0
             THEN /\ markCalls' = Append(markCalls,
                        [claimIds |-> successfulClaimIds(results), poll |-> c])
                  /\ polls' = [polls EXCEPT ![c] = [pc |-> "markExported",
                                  fetchId |-> 0, results |-> results]]
                  /\ UNCHANGED <<confirmCalls, exportedToday, exportErrorsToday,
                                 exportActivity, claimsWritten>>
           ELSE /\ finishProcessExports(c, results, exportActivity)
                /\ UNCHANGED <<confirmCalls, markCalls>>
  /\ UNCHANGED <<cfgVars, fileNamePattern, nameVars, hbVars, cbVars, adtPollErrors, lifeVars, pausedReturns,
                 watcherVars, syncVars, envVars, adtEnabled, exportPaused,
                 pollsStarted, now, confirmThrows, adtWritten, codecVars, timerVars, msgVars>>

\* getPendingExports throws: the catch of pollForExports
PendingExportsThrow(c) ==
  /\ polls[c].pc = "getPendingExports"
  /\ exportErrorsToday' = exportErrorsToday + 1
  /\ exportActivity' = exportAddActivity(exportActivity, "error", "Poll failed")
  /\ polls' = [polls EXCEPT ![c] = afterPollFailed]
  /\ UNCHANGED <<cfgVars, auxVars, pausedReturns, watcherVars, syncVars, envVars, adtEnabled, exportPaused,
                 pollsStarted, exportedToday, disk, diskWrites, now, nextFetchId, fetchLog,
                 confirmCalls, markCalls, confirmThrows, claimsWritten, adtWritten>>

\* a confirm failure reported as a failed export
afterConfirmExportFailed(log, ok, message) ==
  IF ok THEN log ELSE exportAddActivity(log, "error", "Export failed")

\* the activity log after the await of confirmExport / confirmAdtExport
afterConfirm(log, ok, message) ==
  IF ok THEN log ELSE exportAddActivity(log, "error", message)

\* confirmExport returns or throws: processExports to its end
ConfirmExportReturn(c, ok) ==
  /\ polls[c].pc = "confirmExport"
  /\ confirmThrows' = IF ok THEN confirmThrows ELSE confirmThrows + 1
  /\ finishProcessExports(c, polls[c].results,
       afterConfirm(exportActivity, ok, "Confirmation failed (files written locally)"))
  /\ UNCHANGED <<cfgVars, auxVars, pausedReturns, watcherVars, syncVars, envVars, adtEnabled, exportPaused,
                 pollsStarted, disk, diskWrites, now, nextFetchId, fetchLog, confirmCalls, markCalls,
                 adtWritten>>

\* markExported returns or throws (the outer catch of processExports)
MarkExportedReturn(c, ok) ==
  /\ polls[c].pc = "markExported"
  /\ IF ok
       THEN finishProcessExports(c, polls[c].results, exportActivity)
       ELSE /\ exportErrorsToday' = exportErrorsToday + 1
            /\ exportActivity' = exportAddActivity(exportActivity, "error", "Export failed")
            /\ claimsWritten' = claimsWritten + SuccessCount(polls[c].results)
            /\ polls' = [polls EXCEPT ![c] = afterPollFailed]
            /\ UNCHANGED exportedToday
  /\ UNCHANGED <<cfgVars, auxVars, pausedReturns, watcherVars, syncVars, envVars, adtEnabled, exportPaused,
                 pollsStarted, disk, diskWrites, now, nextFetchId, fetchLog, confirmCalls, markCalls,
                 confirmThrows, adtWritten>>

\* getPendingAdtExports returns n records; processAdtExports runs its loop (a record of
\* `missing` has no proclaimPatientRecord, for one of `unwritable` generateADTA08 or
\* writeFileSync throws) up to the await of confirmAdtExport
PendingAdtExportsReturn(c, n, missing, unwritable) ==
  /\ polls[c].pc = "getPendingAdtExports"
  /\ IF n = 0
       THEN /\ polls' = [polls EXCEPT ![c] = DonePoll]
            /\ UNCHANGED <<nextFetchId, fetchLog, disk, diskWrites, exportedToday, exportErrorsToday,
                           adtWritten, confirmCalls, batchLog>>
       ELSE LET results == AdtExportResults(n, missing, unwritable)
                written == (1..n) \ (missing \cup unwritable)
            IN /\ nextFetchId' = nextFetchId + 1
               /\ fetchLog' = fetchLog \cup {[endpoint |-> "confirm-adt-export",
                                              fetchId |-> nextFetchId, poll |-> c,
                                              count |-> n]}
               /\ batchLog' = batchLog \cup {[endpoint |-> "confirm-adt-export",
                                              fetchId |-> nextFetchId, poll |-> c,
                                              count |-> n, missing |-> missing,
                                              written |-> written]}
               /\ disk' = disk \cup {generateAdtFileName(patientOf(i)) : i \in written}
               /\ diskWrites' = diskWrites + Cardinality(written)
               /\ exportedToday' = exportedToday + SuccessCount(results)
               /\ exportErrorsToday' = exportErrorsToday + FailCount(results)
               /\ adtWritten' = adtWritten + SuccessCount(results)
               /\ confirmCalls' = Append(confirmCalls,
                     [poll |-> c,
                      request |-> confirmRequest("confirm-adt-export", nextFetchId,
                                                 results)])
               /\ polls' = [polls EXCEPT ![c] = [pc |-> "confirmAdtExport",
                               fetchId |-> nextFetchId, results |-> results]]
  /\ UNCHANGED <<cfgVars, fileNamePattern, nameVars, hbVars, cbVars, legacyLog, adtPollErrors,
                 lifeVars, pausedReturns,
                 watcherVars, syncVars, envVars, adtEnabled, exportPaused,
                 pollsStarted, exportActivity, now, markCalls, confirmThrows,
                 claimsWritten, codecVars, timerVars, msgVars>>

\* the HTTP status codes of a failed pending-adt-exports request tried
AdtPollStatuses == {<<"4", "0", "4">>, <<"5", "0", "0">>}
\* what getPendingAdtExports can reject with: the failure and the message of its Error
AdtPollFailures ==
  {[kind |-> "status", status |-> s,
    message |-> <<"Request failed with status code ">> \o s] : s \in AdtPollStatuses}

\* a catch of pollForAdtExports that skips no failure
adtEndpointMissingNever(errMsg) == FALSE

\* the catch of pollForAdtExports: is the failure taken for a missing endpoint?
adtEndpointMissing(errMsg) ==
  includes(errMsg, <<"4", "0", "4">>) \/ includes(errMsg, <<"Not Found">>)

\* getPendingAdtExports throws: the catch of pollForAdtExports
PendingAdtExportsThrow(c, failure) ==
  /\ polls[c].pc = "getPendingAdtExports"
  /\ adtPollErrors' = adtPollErrors \cup {[poll |-> c, kind |-> failure.kind,
                                           status |-> failure.status]}
  /\ exportActivity' = IF adtEndpointMissing(failure.message) THEN exportActivity
                       ELSE exportAddActivity(exportActivity, "error", "ADT poll failed")
  /\ polls' = [polls EXCEPT ![c] = DonePoll]
  /\ UNCHANGED <<cfgVars, fileNamePattern, nameVars, hbVars, cbVars, legacyLog, batchLog,
                 lifeVars, pausedReturns, watcherVars, syncVars, envVars, adtEnabled, exportPaused,
                 pollsStarted, exportedToday, exportErrorsToday, disk, diskWrites, now, nextFetchId,
                 fetchLog, confirmCalls, markCalls, confirmThrows, claimsWritten,
                 adtWritten, codecVars, timerVars, msgVars>>

\* confirmAdtExport returns or throws: processAdtExports to its end
ConfirmAdtExportReturn(c, ok) ==
  /\ polls[c].pc = "confirmAdtExport"
  /\ confirmThrows' = IF ok THEN confirmThrows ELSE confirmThrows + 1
  /\ exportActivity' = batchActivity(
        afterConfirm(exportActivity, ok, "ADT confirmation failed (files written locally)"),
        polls[c].results, "Exported ADT update(s)", "All ADT exports failed")
  /\ polls' = [polls EXCEPT ![c] = DonePoll]
  /\ UNCHANGED <<cfgVars, auxVars, pausedReturns, watcherVars, syncVars, envVars, adtEnabled, exportPaused,
                 pollsStarted, exportedToday, exportErrorsToday, disk, diskWrites, now, nextFetchId,
                 fetchLog, confirmCalls, markCalls, claimsWritten, adtWritten>>

\* ExportService.pause
ExportPause ==
  /\ ~exportPaused
  /\ exportPaused' = TRUE
  /\ UNCHANGED <<cfgVars, auxVars, pausedReturns, watcherVars, syncVars, envVars, adtEnabled, polls, pollsStarted,
                 exportedToday, exportErrorsToday, exportActivity, disk, diskWrites, now, nextFetchId,
                 fetchLog, confirmCalls, markCalls, confirmThrows, claimsWritten,
                 adtWritten>>

\* ExportService.resume
ExportResume ==
  /\ exportPaused
  /\ exportPaused' = FALSE
  /\ UNCHANGED <<cfgVars, auxVars, pausedReturns, watcherVars, syncVars, envVars, adtEnabled, polls, pollsStarted,
                 exportedToday, exportErrorsToday, exportActivity, disk, diskWrites, now, nextFetchId,
                 fetchLog, confirmCalls, markCalls, confirmThrows, claimsWritten,
                 adtWritten>>

\* the per-claim body of the loop of processExports, for the next claim of batch
WriteClaimFile ==
  /\ batch.kind = "claims"
  /\ Len(batchNames) < Len(batch.records)
  /\ LET claimId == batch.records[Len(batchNames) + 1]
         fileName == generateFileName(ClinicCode, claimId)
     IN /\ batchNames' = Append(batchNames, fileName)
        /\ disk' = disk \cup {fileName}
        /\ diskWrites' = diskWrites + 1
  /\ UNCHANGED <<cfgVars, watcherVars, syncVars, envVars, fileNamePattern, batch,
                 lifeVars, pausedReturns, hbVars, cbVars, legacyLog, batchLog, adtPollErrors,
                 adtEnabled, exportPaused, polls, pollsStarted, exportedToday,
                 exportErrorsToday, exportActivity, now, nextFetchId, fetchLog,
                 confirmCalls, markCalls, confirmThrows, claimsWritten, adtWritten, codecVars, timerVars, msgVars>>

\* the per-record body of the loop of processAdtExports, for the next record of batch
WriteAdtFile ==
  /\ batch.kind = "adt"
  /\ Len(batchNames) < Len(batch.records)
  /\ LET adtExport == batch.records[Len(batchNames) + 1]
         fileName == generateAdtFileName(adtExport.proclaimPatientRecord)
     IN /\ batchNames' = Append(batchNames, fileName)
        /\ disk' = disk \cup {fileName}
        /\ diskWrites' = diskWrites + 1
  /\ UNCHANGED <<cfgVars, watcherVars, syncVars, envVars, fileNamePattern, batch,
                 lifeVars, pausedReturns, hbVars, cbVars, legacyLog, batchLog, adtPollErrors,
                 adtEnabled, exportPaused, polls, pollsStarted, exportedToday,
                 exportErrorsToday, exportActivity, now, nextFetchId, fetchLog,
                 confirmCalls, markCalls, confirmThrows, claimsWritten, adtWritten, codecVars, timerVars, msgVars>>

\* The state after SyncService.start(): the files of `present` are in the watch
\* folder and chokidar's initial scan is about to notify each of them.
InitWith(present) ==
  /\ loc = [p \in Files |-> IF p \in present THEN "watch" ELSE "absent"]
  /\ locked \in SUBSET (present \cap {1})
  /\ pendingAdds = present
  /\ pendingFiles = {}
  /\ lockTimers = [p \in Files |-> 0]
  /\ processingQueue = <<>>
  /\ processedFiles = {}
  /\ isPaused = FALSE
  /\ retryCount = [p \in Files |-> 0]
  /\ retryTimers = [p \in Files |-> 0]
  /\ inflight = [p \in Files |-> [i \in MsgIdx |-> 0]]
  /\ syncedToday = 0 /\ errorsToday = 0
  /\ acked = [p \in Files |-> {}]
  /\ resubmitted = {}
  /\ failCount = [p \in Files |-> 0]
  /\ okCount = [p \in Files |-> 0]
  /\ permFailed = {} /\ fileFailed = {}
  /\ handed = {}
  /\ handoffLog = <<>>
  /\ dupTimers = {} /\ dupLock = [p \in Files |-> 0] /\ dupAttempt = {}
  /\ syncNows = 0 /\ fsFaults = 0
  /\ pausedReturns = {}

\* The state after ExportService.start(), before the initial poll.
InitExport ==
  /\ exportPaused = FALSE
  /\ polls = [c \in 1..MaxPolls |-> IdlePoll]
  /\ pollsStarted = 0
  /\ exportedToday = 0 /\ exportErrorsToday = 0
  /\ exportActivity = <<>>
  /\ disk = {} /\ diskWrites = 0
  /\ now = 0
  /\ nextFetchId = 1
  /\ fetchLog = {}
  /\ confirmCalls = <<>> /\ markCalls = <<>>
  /\ confirmThrows = 0 /\ claimsWritten = 0 /\ adtWritten = 0

\* ---------------------------------------------------------------- heartbeat
MaxHeartbeats == 3
Heartbeats == 1..MaxHeartbeats

\* the message of the Error apiClient.sendHeartbeat throws without an API key
NoApiKeyMessage == <<"No API key configured">>
\* the base URL's port numbers tried
Ports == {<<"4", "4", "3">>, <<"4", "0", "1", "0">>}
\* the HTTP status codes tried other than 2xx
Statuses == {<<"4", "0", "1">>, <<"4", "0", "3">>, <<"5", "0", "0">>}
\* what client.post can reject with: the failure and the message of its Error. The
\* fixed words of a message are one piece each, digits are one piece per character.
PostFailures ==
  {[kind |-> "status", status |-> s,
    message |-> <<"Request failed with status code ">> \o s] : s \in Statuses}
  \cup {[kind |-> "refused", port |-> q,
         message |-> <<"connect ECONNREFUSED ", "host", ":">> \o q] : q \in Ports}
  \cup {[kind |-> "timeout",
         message |-> <<"timeout of ", "3", "0", "0", "0", "0", "ms exceeded">>]}
  \cup {[kind |-> "url", message |-> <<"Invalid", " URL">>]}
PostOutcomes == {[kind |-> "ok", message |-> <<>>]} \cup PostFailures

\* the catch block of SyncService.sendHeartbeat: the event it emits
catchHeartbeat(errorMessage) ==
  IF includes(errorMessage, NoApiKeyMessage)
    THEN "credentials-invalid"
    ELSE IF includes(errorMessage, <<"4", "0", "1">>) \/ includes(errorMessage, <<"Invalid">>)
           THEN "credentials-invalid"
           ELSE "heartbeat-failed"

IdleHeartbeat == [pc |-> "idle", posts |-> 0, outcome |-> "none", events |-> <<>>]

\* the interval (or startHeartbeat) calls SyncService.sendHeartbeat; it runs up to
\* its await of client.post, or to its end when apiClient.sendHeartbeat throws first
SendHeartbeat(h) ==
  /\ heartbeats[h].pc = "idle"
  /\ \A g \in 1..(h - 1) : heartbeats[g].pc # "idle"
  /\ heartbeats' =
       [heartbeats EXCEPT ![h] =
          IF apiKey = <<>>
            THEN [pc |-> "done", posts |-> 0, outcome |-> [kind |-> "nokey"],
                  events |-> <<catchHeartbeat(NoApiKeyMessage)>>]
            ELSE [@ EXCEPT !.pc = "posting", !.posts = @ + 1]]
  /\ UNCHANGED <<cfgVars, watcherVars, syncVars, envVars, exportVars, fileNamePattern,
                 nameVars, apiKey, cbVars, legacyLog, batchLog, adtPollErrors,
                 lifeVars, pausedReturns, codecVars, timerVars, msgVars>>

\* client.post of heartbeat h settles; SyncService.sendHeartbeat runs to its end
HeartbeatReturn(h, o) ==
  /\ heartbeats[h].pc = "posting"
  /\ heartbeats' =
       [heartbeats EXCEPT ![h] =
          [@ EXCEPT !.pc = "done",
                    !.outcome = [x \in DOMAIN o \ {"message"} |-> o[x]],
                    !.events = Append(@, IF o.kind = "ok" THEN "heartbeat-sent"
                                                       ELSE catchHeartbeat(o.message))]]
  /\ UNCHANGED <<cfgVars, watcherVars, syncVars, envVars, exportVars, fileNamePattern,
                 nameVars, apiKey, cbVars, legacyLog, batchLog, adtPollErrors,
                 lifeVars, pausedReturns, codecVars, timerVars, msgVars>>

InitHeartbeats(keys) ==
  /\ apiKey \in keys
  /\ heartbeats = [h \in Heartbeats |-> IdleHeartbeat]

\* ------------------------------ FileWatcherService with a processing callback
MaxRenotify == 2

\* FileWatcherService.processNextFile when a callback is registered: the state of the
\* watcher it leaves, up to its await of the callback
processNextFile(w) ==
  IF w.isProcessing \/ w.processingQueue = <<>>
    THEN w
    ELSE [w EXCEPT !.isProcessing = TRUE,
                   !.processingQueue = Tail(@),
                   !.processedFiles = @ \cup {Head(w.processingQueue).filePath},
                   !.callbackRuns = Head(w.processingQueue).filePath]

WatcherState ==
  [isProcessing |-> isProcessing, processingQueue |-> processingQueue,
   processedFiles |-> processedFiles, callbackRuns |-> callbackRuns,
   lockTimers |-> lockTimers, immediates |-> immediates]

SetWatcherState(w) ==
  /\ isProcessing' = w.isProcessing
  /\ processingQueue' = w.processingQueue
  /\ processedFiles' = w.processedFiles
  /\ callbackRuns' = w.callbackRuns
  /\ lockTimers' = w.lockTimers
  /\ immediates' = w.immediates

\* FileWatcherService.validateAndQueueFile when a callback is registered
validateAndQueueFileCallback(w, p) ==
  IF loc[p] # "watch"
    THEN w
  ELSE IF fileSize[p] > MAX_FILE_SIZE
    THEN w
  ELSE IF p \in locked
    THEN [w EXCEPT !.lockTimers[p] = @ + 1]
  ELSE processNextFile([w EXCEPT !.processingQueue = InsertSorted(@, FileEvent(p))])

\* chokidar fires 'add' once more for a file it has announced before
ChokidarRepeats(p) ==
  /\ fileProcessCallback
  /\ loc[p] = "watch" /\ p \notin pendingAdds
  /\ renotified < MaxRenotify
  /\ renotified' = renotified + 1
  /\ pendingAdds' = pendingAdds \cup {p}
  /\ UNCHANGED <<cfgVars, syncVars, envVars, exportVars, fileNamePattern, nameVars, hbVars,
                 legacyLog, batchLog, adtPollErrors, lifeVars, pausedReturns, fileProcessCallback, isProcessing, callbackRuns, immediates,
                 pendingFiles, lockTimers, processingQueue, processedFiles, handoffLog,
                 dupTimers, dupLock, dupAttempt, codecVars, timerVars, msgVars>>

\* chokidar delivers 'add' for p: onFileAdded
CallbackAdd(p) ==
  /\ fileProcessCallback
  /\ p \in pendingAdds
  /\ pendingAdds' = pendingAdds \ {p}
  /\ pendingFiles' = IF p \in processedFiles THEN pendingFiles ELSE pendingFiles \cup {p}
  /\ UNCHANGED <<cfgVars, syncVars, envVars, exportVars, fileNamePattern, nameVars, hbVars,
                 legacyLog, batchLog, adtPollErrors, lifeVars, pausedReturns, cbVars, lockTimers, processingQueue, processedFiles,
                 handoffLog, dupTimers, dupLock, dupAttempt, codecVars, timerVars, msgVars>>

\* the debounce timer of p fires
CallbackDebounceFire(p) ==
  /\ fileProcessCallback
  /\ p \in pendingFiles
  /\ pendingFiles' = pendingFiles \ {p}
  /\ SetWatcherState(validateAndQueueFileCallback(WatcherState, p))
  /\ UNCHANGED <<cfgVars, syncVars, envVars, exportVars, fileNamePattern, nameVars, hbVars,
                 legacyLog, batchLog, adtPollErrors, lifeVars, pausedReturns, fileProcessCallback, renotified, pendingAdds, handoffLog,
                 dupTimers, dupLock, dupAttempt, codecVars, timerVars, msgVars>>

\* a re-validation timer of the locked file p fires
CallbackLockTimerFire(p) ==
  /\ fileProcessCallback
  /\ lockTimers[p] > 0
  /\ SetWatcherState(validateAndQueueFileCallback(
                       [WatcherState EXCEPT !.lockTimers[p] = @ - 1], p))
  /\ UNCHANGED <<cfgVars, syncVars, envVars, exportVars, fileNamePattern, nameVars, hbVars,
                 legacyLog, batchLog, adtPollErrors, lifeVars, pausedReturns, fileProcessCallback, renotified, pendingAdds, pendingFiles,
                 handoffLog, dupTimers, dupLock, dupAttempt, codecVars, timerVars, msgVars>>

\* the awaited callback settles (threw: it rejected); the catch and finally blocks of
\* processNextFile
CallbackSettles(threw) ==
  /\ fileProcessCallback
  /\ callbackRuns # 0
  /\ SetWatcherState(
       [WatcherState EXCEPT !.processedFiles = IF threw THEN @ \ {callbackRuns} ELSE @,
                            !.isProcessing = FALSE,
                            !.callbackRuns = 0,
                            !.immediates = IF processingQueue # <<>> THEN @ + 1 ELSE @])
  /\ UNCHANGED <<cfgVars, syncVars, envVars, exportVars, fileNamePattern, nameVars, hbVars,
                 legacyLog, batchLog, adtPollErrors, lifeVars, pausedReturns, fileProcessCallback, renotified, pendingAdds, pendingFiles,
                 handoffLog, dupTimers, dupLock, dupAttempt, codecVars, timerVars, msgVars>>

\* a setImmediate(processNextFile) runs
ImmediateFire ==
  /\ fileProcessCallback
  /\ immediates > 0
  /\ SetWatcherState(processNextFile([WatcherState EXCEPT !.immediates = @ - 1]))
  /\ UNCHANGED <<cfgVars, syncVars, envVars, exportVars, fileNamePattern, nameVars, hbVars,
                 legacyLog, batchLog, adtPollErrors, lifeVars, pausedReturns, fileProcessCallback, renotified, pendingAdds, pendingFiles,
                 handoffLog, dupTimers, dupLock, dupAttempt, codecVars, timerVars, msgVars>>

\* the watcher as constructed: idle, callback registered or not
InitWatcherCallback(registered) ==
  /\ fileProcessCallback = registered
  /\ isProcessing = FALSE /\ callbackRuns = 0 /\ immediates = 0 /\ renotified = 0

\* ------------------------------------------------ ExportService start / stop
MaxStarts == 2
MaxStops == 2
MaxAttempts == 22
StartCalls == 1..MaxStarts

\* what one attempt of waitForFolderAccess can meet: the folder exists or is created
\* ("ok"), or mkdirSync throws an Error with this message
FolderErrors ==
  {<<"ENOENT", ": no such file or directory, mkdir">>,
   <<"EACCES", ": permission denied, mkdir">>,
   <<"EPERM", ": operation not permitted, mkdir">>,
   <<"ENOSPC", ": no space left on device, mkdir">>,
   <<"ENOTDIR", ": not a directory, mkdir">>}
AttemptOutcomes == {<<"ok">>} \cup FolderErrors

\* waitForFolderAccess: is the error one of a folder that is not ready?
folderNotReady(errMsg) ==
  includes(errMsg, <<"ENOENT">>) \/ includes(errMsg, <<"EACCES">>) \/ includes(errMsg, <<"EPERM">>)

\* a wait that always takes the short delay
delayMsShort(attempt) == 3000

\* waitForFolderAccess: the delay before the attempt after `attempt`
delayMs(attempt) ==
  IF attempt <= 10 THEN 3000 ELSE IF attempt <= 20 THEN 30000 ELSE 60000

IdleStart == [pc |-> "idle", attempt |-> 0, delay |-> 0, error |-> <<>>]

\* one pass of the while loop of waitForFolderAccess for the start() call s, and what
\* start() does when the wait returns: startPolling, that is the initial poll and
\* setInterval. stopped: stop() has returned and start() was not called since.
folderAttempt(s, o, stopped) ==
  LET attempt == startCalls[s].attempt + 1
  IN IF o = <<"ok">>
       THEN /\ startCalls' = [startCalls EXCEPT ![s] = [pc |-> "done", attempt |-> attempt,
                                                        delay |-> @.delay, error |-> <<>>]]
            /\ pollAfterStop' = (pollAfterStop \/ stopped)
            /\ pollInterval' = (CHOOSE i \in 1..MaxStarts : i \notin intervals)
            /\ intervals' = intervals \cup {pollInterval'}
     ELSE IF folderNotReady(o)
       THEN /\ startCalls' = [startCalls EXCEPT ![s] = [pc |-> "waiting", attempt |-> attempt,
                                                        delay |-> delayMs(attempt),
                                                        error |-> o]]
            /\ UNCHANGED <<pollAfterStop, pollInterval, intervals, codecVars, timerVars, msgVars>>
     ELSE /\ startCalls' = [startCalls EXCEPT ![s] = [pc |-> "threw", attempt |-> attempt,
                                                      delay |-> @.delay, error |-> o]]
          /\ UNCHANGED <<pollAfterStop, pollInterval, intervals, codecVars, timerVars, msgVars>>

\* ExportService.start() is called: up to its first timer wait, or to its end
StartCall(s, o) ==
  /\ startCalls[s].pc = "idle"
  /\ \A r \in 1..(s - 1) : startCalls[r].pc # "idle"
  /\ stopReturned' = FALSE
  /\ folderAttempt(s, o, FALSE)
  /\ UNCHANGED <<cfgVars, watcherVars, syncVars, envVars, exportVars, fileNamePattern,
                 nameVars, hbVars, cbVars, legacyLog, batchLog, adtPollErrors, stops,
                 pausedReturns, codecVars, timerVars, msgVars>>

\* the delay timer of waitForFolderAccess of the start() call s fires
AccessTimerFire(s, o) ==
  /\ startCalls[s].pc = "waiting"
  /\ startCalls[s].attempt < MaxAttempts
  /\ folderAttempt(s, o, stopReturned)
  /\ UNCHANGED <<cfgVars, watcherVars, syncVars, envVars, exportVars, fileNamePattern,
                 nameVars, hbVars, cbVars, legacyLog, batchLog, adtPollErrors, stops,
                 stopReturned, pausedReturns, codecVars, timerVars, msgVars>>

\* ExportService.stop()
StopCall ==
  /\ stops < MaxStops
  /\ stops' = stops + 1
  /\ intervals' = IF pollInterval # 0 THEN intervals \ {pollInterval} ELSE intervals
  /\ pollInterval' = 0
  /\ stopReturned' = TRUE
  /\ UNCHANGED <<cfgVars, watcherVars, syncVars, envVars, exportVars, fileNamePattern,
                 nameVars, hbVars, cbVars, legacyLog, batchLog, adtPollErrors, startCalls,
                 pollAfterStop, pausedReturns, codecVars, timerVars, msgVars>>

\* an interval timer fires: pollForExports is called
IntervalTick(i) ==
  /\ i \in intervals
  /\ pollAfterStop' = (pollAfterStop \/ stopReturned)
  /\ UNCHANGED <<cfgVars, watcherVars, syncVars, envVars, exportVars, fileNamePattern,
                 nameVars, hbVars, cbVars, legacyLog, batchLog, adtPollErrors, startCalls,
                 pollInterval, intervals, stops, stopReturned, pausedReturns, codecVars, timerVars, msgVars>>

\* ------------------------------------------------------------ HL7 codec
\* A text is a sequence of pieces. Each separator character (| ^ ~, carriage return,
\* line feed, space) is a piece of its own; a run of other characters is cut into
\* pieces so that the letters MSH, wherever they occur, are a piece. A string value
\* (a name, a code) is a sequence of pieces too, the empty string being <<>>.

HL7_SEGMENT_SEPARATOR == "<CR>"
HL7_FIELD_SEPARATOR == "|"
HL7_COMPONENT_SEPARATOR == "^"
HL7_REPETITION_SEPARATOR == "~"
LineFeed == "<LF>"
LineEnds == {HL7_SEGMENT_SEPARATOR, LineFeed}
Whitespace == LineEnds \cup {" "}

\* the k-th smallest element of a set of positions
nth(positions, k) == CHOOSE i \in positions : Cardinality({j \in positions : j < i}) = k - 1

\* the parts of s between separators: the k-th separator starts at position starts[k]
\* and ends at position ends[k]
between(s, starts, ends) ==
  LET n == Cardinality(starts)
      from(k) == IF k = 1 THEN 1 ELSE nth(ends, k - 1) + 1
      to(k) == IF k = n + 1 THEN Len(s) ELSE nth(starts, k) - 1
  IN [k \in 1..(n + 1) |-> SubSeq(s, from(k), to(k))]

\* String.prototype.split(sep), sep one character: "" splits into [""]
split(s, sep) ==
  LET at == {i \in 1..Len(s) : s[i] = sep} IN between(s, at, at)

\* rawText.split(/[\r\n]+/): a run of line ends separates once
splitLines(s) ==
  LET at == {i \in 1..Len(s) : s[i] \in LineEnds} IN
  between(s, {i \in at : i - 1 \notin at}, {i \in at : i + 1 \notin at})

RECURSIVE trimStart(_)
trimStart(s) == IF s # <<>> /\ Head(s) \in Whitespace THEN trimStart(Tail(s)) ELSE s

RECURSIVE trimEnd(_)
trimEnd(s) ==
  IF s # <<>> /\ s[Len(s)] \in Whitespace THEN trimEnd(SubSeq(s, 1, Len(s) - 1)) ELSE s

trim(s) == trimEnd(trimStart(s))

startsWith(s, prefix) == Len(s) >= Len(prefix) /\ SubSeq(s, 1, Len(prefix)) = prefix

\* Array.prototype.join
RECURSIVE join(_, _)
join(parts, sep) ==
  IF parts = <<>> THEN <<>>
  ELSE IF Len(parts) = 1 THEN parts[1]
  ELSE parts[1] \o <<sep>> \o join(Tail(parts), sep)

\* String.prototype.toUpperCase, on the pieces the model's values are made of
toUpperCasePiece(c) ==
  CASE c = "Smith" -> "SMITH"
    [] c = "dft" -> "DFT"
    [] c = "p03" -> "P03"
    [] c = "manipulation" -> "MANIPULATION"
    [] OTHER -> c

toUpperCase(s) == [i \in 1..Len(s) |-> toUpperCasePiece(s[i])]

\* fields[i] || '', i counted from 0 as the code counts
fieldAt(fields, i) == IF i + 1 <= Len(fields) THEN fields[i + 1] ELSE <<>>

parseMessageType(msgTypeField) ==
  LET normalized == toUpperCase(msgTypeField) IN
  IF includes(normalized, <<"ADT", "^", "A04">>) THEN "ADT^A04"
  ELSE IF includes(normalized, <<"ADT", "^", "A08">>) THEN "ADT^A08"
  ELSE IF includes(normalized, <<"ADT", "^", "A31">>) THEN "ADT^A31"
  ELSE IF includes(normalized, <<"DFT", "^", "P03">>) THEN "DFT^P03"
  ELSE IF includes(normalized, <<"ORU", "^", "R01">>) THEN "ORU^R01"
  ELSE "UNKNOWN"

NotBlank(s) == trim(s) # <<>>

\* message.segments[type]: the field lists of the segments of that type, in text order
segmentsOf(message, type) ==
  SelectSeq(message.segments, LAMBDA fields : fields[1] = <<type>>)

parseHL7(text) ==
  LET lines == SelectSeq(splitLines(text), NotBlank)
      segments == [i \in 1..Len(lines) |-> split(lines[i], HL7_FIELD_SEPARATOR)]
      mshs == SelectSeq(segments, LAMBDA fields : fields[1] = <<"MSH">>)
  IN [segments |-> segments,
      messageType |-> IF mshs # <<>> THEN parseMessageType(fieldAt(mshs[1], 8))
                      ELSE "UNKNOWN",
      messageControlId |-> IF mshs # <<>> THEN fieldAt(mshs[1], 9) ELSE <<>>,
      sendingFacility |-> IF mshs # <<>> THEN fieldAt(mshs[1], 3) ELSE <<>>]

NoCptLine == [code |-> <<>>, description |-> <<>>]

\* the ParsedCPTLine, NoCptLine for null
parseCPTFromFT1(ft1) ==
  IF Len(ft1) < 7 THEN NoCptLine
  ELSE LET codeParts == split(fieldAt(ft1, 7), HL7_COMPONENT_SEPARATOR)
           code == codeParts[1]
       IN IF code = <<>> THEN NoCptLine
          ELSE [code |-> code, description |-> fieldAt(codeParts, 1)]

\* if (code && !icdCodes.includes(code)) icdCodes.push(code), for each code in turn
RECURSIVE pushCodes(_, _)
pushCodes(icdCodes, codes) ==
  IF codes = <<>> THEN icdCodes
  ELSE LET code == Head(codes) IN
       pushCodes(IF code # <<>> /\ ~(\E i \in 1..Len(icdCodes) : icdCodes[i] = code)
                 THEN Append(icdCodes, code) ELSE icdCodes,
                 Tail(codes))

firstComponents(parts) ==
  [i \in 1..Len(parts) |-> split(parts[i], HL7_COMPONENT_SEPARATOR)[1]]

NoEncounter == [kind |-> "none"]

\* the loop over the FT1 segments: acc is <<cptLines, icdCodes>>
RECURSIVE ft1Loop(_, _)
ft1Loop(ft1s, acc) ==
  IF ft1s = <<>> THEN acc
  ELSE LET ft1Seg == Head(ft1s)
           cptLine == parseCPTFromFT1(ft1Seg)
           diags == split(fieldAt(ft1Seg, 19), HL7_REPETITION_SEPARATOR)
       IN ft1Loop(Tail(ft1s),
                  IF cptLine # NoCptLine
                  THEN <<Append(acc[1], cptLine), pushCodes(acc[2], firstComponents(diags))>>
                  ELSE acc)

parseEncounterFromDFT(message) ==
  LET pids == segmentsOf(message, "PID")
      dg1s == segmentsOf(message, "DG1")
      ft1s == segmentsOf(message, "FT1")
      fromDg1 == pushCodes(<<>>, firstComponents([i \in 1..Len(dg1s) |-> fieldAt(dg1s[i], 3)]))
      result == ft1Loop(ft1s, <<<<>>, fromDg1>>)
  IN IF pids = <<>> THEN [kind |-> "null"]
     ELSE [kind |-> "encounter",
           patientExternalId |-> split(fieldAt(pids[1], 3), HL7_COMPONENT_SEPARATOR)[1],
           icdCodes |-> result[2],
           cptLines |-> result[1]]

\* ---- charge messages handed to the parser
BoundedSeqs(S, n) == UNION {[1..k -> S] : k \in 0..n}

MshSegment(facility, msgType) ==
  join(<<<<"MSH">>, <<"^", "~", "\\&">>, <<"PROCLAIM">>, facility, <<"SPINEFRAME">>, <<>>,
         <<"20240115103000">>, <<>>, msgType, <<"CTRL1">>, <<"P">>, <<"2.4">>>>,
       HL7_FIELD_SEPARATOR)

PidSegment(recordNumber, name) ==
  join(<<<<"PID">>, <<"1">>, recordNumber, recordNumber, <<>>, name>>, HL7_FIELD_SEPARATOR)

Dg1Segment(codeField) ==
  join(<<<<"DG1">>, <<"1">>, <<"ICD10">>, codeField>>, HL7_FIELD_SEPARATOR)

\* an FT1 segment up to field 19
Ft1Segment(f) ==
  join(<<<<"FT1">>, <<"1">>, <<"T1">>, <<>>, <<"20240115">>, <<"20240115">>, <<"CG">>,
         f.code, <<>>, <<>>, <<"1">>, <<"45.00">>, <<>>, <<>>, <<>>, <<>>, <<>>, <<>>, <<>>,
         f.diags>>,
       HL7_FIELD_SEPARATOR)

Dg1CodeFields ==
  {<<>>, <<"M54.5">>, <<"M99.03", "^", "SEGMENTAL DYSFUNCTION">>}

Ft1Fields ==
  [code : {<<>>, <<"98941", "^", "CMT">>},
   diags : {<<>>, <<"M54.5">>, <<"M54.5", "~", "S13.4">>, <<"M99.03", "^", "^", "ICD">>}]

DftTexts ==
  {join(<<MshSegment(<<"CLINIC">>, <<"DFT", "^", "P03">>)>>
        \o (IF pid THEN <<PidSegment(<<"12345">>, <<"SMITH", "^", "JOHN">>)>> ELSE <<>>)
        \o [i \in 1..Len(dg1) |-> Dg1Segment(dg1[i])]
        \o [i \in 1..Len(ft1) |-> Ft1Segment(ft1[i])],
        HL7_SEGMENT_SEPARATOR) :
     pid \in BOOLEAN, dg1 \in BoundedSeqs(Dg1CodeFields, MaxDg1),
     ft1 \in BoundedSeqs(Ft1Fields, MaxFt1)}

NoClaim ==
  [patient |-> [lastName |-> <<>>, firstName |-> <<>>, middleName |-> <<>>],
   billingCodes |-> <<>>, diagnosisCodes |-> <<>>]

\* processHL7Message on a charge message: parseHL7, then parseEncounterFromDFT
ParseDFT ==
  /\ codecPc = "text"
  /\ encounter' = parseEncounterFromDFT(parseHL7(rawText))
  /\ codecPc' = "parsed"
  /\ UNCHANGED <<cfgVars, watcherVars, syncVars, envVars, exportVars, fileNamePattern,
                 nameVars, hbVars, cbVars, legacyLog, batchLog, adtPollErrors, lifeVars,
                 exportClaim, rawText, batchInput, batchMessages, pausedReturns, timerVars, msgVars>>

\* ---- hl7Generator.ts
Empties(n) == [i \in 1..n |-> <<>>]

\* the clinic and the parts of a claim that the round trip does not look at
Clinic == [code |-> <<"SPINE1">>, emrLinkType |-> <<>>, npi |-> <<"1234567890">>]
Timestamp == <<"20240115103000">>
ControlId == <<"SFLRE8Q2X0">>
DosFormatted == <<"20240115">>
ClaimId == <<"64F1A2B3C4">>

\* the text generateDFTP03(claim, clinic) returns
generateDFTP03(claim, clinic) ==
  LET msh == join(<<<<"MSH">>, <<"^", "~", "\\&">>, <<"SPINEFRAME">>, clinic.code,
                    <<"PROCLAIM">>,
                    IF clinic.emrLinkType # <<>> THEN clinic.emrLinkType ELSE <<"EMD85">>,
                    Timestamp, <<>>, <<"DFT", "^", "P03">>, ControlId, <<"P">>, <<"2.4">>>>,
                  HL7_FIELD_SEPARATOR)
      evn == join(<<<<"EVN">>, <<"P03">>, Timestamp>>, HL7_FIELD_SEPARATOR)
      patientName == toUpperCase(claim.patient.lastName) \o <<HL7_COMPONENT_SEPARATOR>>
                     \o toUpperCase(claim.patient.firstName) \o <<HL7_COMPONENT_SEPARATOR>>
                     \o toUpperCase(claim.patient.middleName)
      patientRecordNumber == <<"12345">>
      pid == join(<<<<"PID">>, <<"1">>, patientRecordNumber, patientRecordNumber, <<>>,
                    patientName, <<>>, <<"19800101">>, <<"U">>, <<>>, <<>>, <<>>, <<>>,
                    <<>>>>,
                  HL7_FIELD_SEPARATOR)
      visitId == <<"VIS">> \o ClaimId
      attendingDoctor == <<>>
      pv1 == join(<<<<"PV1">>, <<"1">>, <<"O">>, <<>>, <<>>, <<>>, attendingDoctor,
                    attendingDoctor>> \o Empties(10) \o <<visitId>>,
                  HL7_FIELD_SEPARATOR)
      insuredName == toUpperCase(claim.patient.lastName) \o <<HL7_COMPONENT_SEPARATOR>>
                     \o toUpperCase(claim.patient.firstName)
      in1 == join(<<<<"IN1">>, <<"1">>, <<>>, <<"PAYER1">>, <<"ACME HEALTH">>, <<>>, <<>>,
                    <<>>, <<>>>> \o Empties(8) \o <<insuredName, <<"self">>>>
                  \o Empties(14) \o <<<<"MEMBER1">>>>,
                  HL7_FIELD_SEPARATOR)
      diagCodesFormatted ==
        join([i \in 1..Len(claim.diagnosisCodes) |->
                claim.diagnosisCodes[i]
                \o <<HL7_COMPONENT_SEPARATOR, HL7_COMPONENT_SEPARATOR, "ICD">>],
             HL7_REPETITION_SEPARATOR)
      performedBy == <<>>
      ft1(index) ==
        LET code == claim.billingCodes[index]
            procedureCode == code.code \o <<HL7_COMPONENT_SEPARATOR>>
                             \o toUpperCase(code.description)
        IN join(<<<<"FT1">>, <<ToString(index)>>, ClaimId, <<>>, DosFormatted, DosFormatted,
                  <<"CG">>, <<>>, <<>>, <<>>, <<"1">>, <<"45.00">>, <<>>, <<>>, <<>>, <<>>,
                  clinic.code, <<>>, <<>>, diagCodesFormatted, performedBy, <<>>, <<>>,
                  <<>>, <<>>, procedureCode, <<>>>>,
                HL7_FIELD_SEPARATOR)
      dg1(index) ==
        LET code == claim.diagnosisCodes[index] IN
        join(<<<<"DG1">>, <<ToString(index)>>, <<"ICD10">>,
               code \o <<HL7_COMPONENT_SEPARATOR>> \o code, <<>>, <<>>, <<"W">>>>,
             HL7_FIELD_SEPARATOR)
  IN join(<<msh, evn, pid, pv1, in1>>
          \o [i \in 1..Len(claim.billingCodes) |-> ft1(i)]
          \o [i \in 1..Len(claim.diagnosisCodes) |-> dg1(i)],
          HL7_SEGMENT_SEPARATOR)

BillingCodes ==
  {[code |-> <<"98941">>, description |-> <<"manipulation">>],
   [code |-> <<"97140">>, description |-> <<"MANUAL THERAPY">>]}

DiagnosisCodes == {<<"M54.5">>, <<"M99.03">>}

ExportClaims ==
  [patient : [lastName : {<<"SMITH">>, <<"Smith">>}, firstName : {<<"JOHN">>},
              middleName : {<<>>, <<"Q">>}],
   billingCodes : BoundedSeqs(BillingCodes, MaxBillingCodes),
   diagnosisCodes : BoundedSeqs(DiagnosisCodes, MaxDiagnosisCodes)]

\* processExports: the text of one claim's file
GenerateDFT ==
  /\ codecPc = "claim"
  /\ rawText' = generateDFTP03(exportClaim, Clinic)
  /\ codecPc' = "text"
  /\ UNCHANGED <<cfgVars, watcherVars, syncVars, envVars, exportVars, fileNamePattern,
                 nameVars, hbVars, cbVars, legacyLog, batchLog, adtPollErrors, lifeVars,
                 exportClaim, encounter, batchInput, batchMessages, pausedReturns, timerVars, msgVars>>

\* ---- batch files
\* rawText.split(/(?=MSH\|)/): the text is cut before every MSH| that is not at its start
splitAtHeaders(s) ==
  LET cuts == {i \in 2..(Len(s) - 1) : s[i] = "MSH" /\ s[i + 1] = HL7_FIELD_SEPARATOR}
      n == Cardinality(cuts)
      from(k) == IF k = 1 THEN 1 ELSE nth(cuts, k - 1)
      to(k) == IF k = n + 1 THEN Len(s) ELSE nth(cuts, k) - 1
  IN [k \in 1..(n + 1) |-> SubSeq(s, from(k), to(k))]

IsMessage(part) == trim(part) # <<>> /\ startsWith(trim(part), <<"MSH", HL7_FIELD_SEPARATOR>>)

splitHL7Batch(text) ==
  LET parts == SelectSeq(splitAtHeaders(text), IsMessage) IN
  [i \in 1..Len(parts) |-> trim(parts[i])]

RECURSIVE concat(_)
concat(texts) == IF texts = <<>> THEN <<>> ELSE Head(texts) \o concat(Tail(texts))

\* the messages a batch file is made of: an MSH segment, a PID segment, and what the
\* producer ended the message with
BatchMessageTexts ==
  {join(<<MshSegment(facility, msgType), PidSegment(<<"12345">>, <<"SMITH", "^", "JOHN">>)>>,
        HL7_SEGMENT_SEPARATOR) \o ending :
     facility \in {<<"CLINIC">>, <<"N", "MSH">>},
     msgType \in {<<"ADT", "^", "A04">>, <<"DFT", "^", "P03">>, <<"ORU", "^", "R01">>},
     ending \in {<<>>, <<HL7_SEGMENT_SEPARATOR>>, <<HL7_SEGMENT_SEPARATOR, LineFeed>>}}

\* processFile: the file's content is read and split
SplitBatch ==
  /\ codecPc = "batch"
  /\ rawText' = concat(batchInput)
  /\ batchMessages' = splitHL7Batch(concat(batchInput))
  /\ codecPc' = "split"
  /\ UNCHANGED <<cfgVars, watcherVars, syncVars, envVars, exportVars, fileNamePattern,
                 nameVars, hbVars, cbVars, legacyLog, batchLog, adtPollErrors, lifeVars,
                 exportClaim, encounter, batchInput, pausedReturns, timerVars, msgVars>>

\* ---- path reuse
MaxReuse == 1

\* a new file is written at path p, the earlier file of that name having been
\* processed and removed from the watch folder; chokidar announces it
FileCreated(p) ==
  /\ loc[p] \in {"processed", "deleted"}
  /\ okCount[p] >= 1 /\ okCount[p] <= MaxReuse
  /\ ~InFlight(p) /\ retryTimers[p] = 0
  /\ loc' = [loc EXCEPT ![p] = "watch"]
  /\ acked' = [acked EXCEPT ![p] = {}]
  /\ pendingAdds' = pendingAdds \cup {p}
  /\ UNCHANGED <<cfgVars, auxVars, pausedReturns, exportVars, envVars, pendingFiles,
                 lockTimers, processingQueue, processedFiles, handoffLog, dupTimers,
                 dupLock, dupAttempt, retryCount, retryTimers, inflight, syncedToday,
                 errorsToday, resubmitted, failCount, okCount, permFailed, fileFailed,
                 handed, fsFaults>>

\* ------------------------------------ FileWatcherService, timer by timer
MaxNotifications == 2
MaxWatcherStops == 1

Timer(p, id) == [path |-> p, id |-> id]

\* onFileAdded without its clearTimeout
onFileAddedKeepsTimer(timers, p, id) == timers \cup {Timer(p, id)}

\* FileWatcherService.onFileAdded: the runtime's debounce timers after it armed timer id
onFileAdded(timers, p, id) ==
  (IF pendingTimer[p] # 0 THEN timers \ {Timer(p, pendingTimer[p])} ELSE timers)
    \cup {Timer(p, id)}

\* stop() leaving the debounce timers armed
stopKeepsTimers(timers) == timers

\* FileWatcherService.stop after its await: clearTimeout for every value of pendingFiles
stopClearsTimers(timers) ==
  timers \ {Timer(q, pendingTimer[q]) : q \in {r \in Files : pendingTimer[r] # 0}}

\* what a validation that ran while the watcher was stopped queued or handed off
queuedWhileStopped(p, handedOff) ==
  IF watcher = "null" /\ handedOff THEN afterStop \cup {p} ELSE afterStop

\* chokidar raises 'add' for a file again (the file was rewritten under its name)
ChokidarAdd(p) ==
  /\ watcher = "watching"
  /\ loc[p] = "watch" /\ p \notin pendingAdds
  /\ notified[p] < MaxNotifications
  /\ pendingAdds' = pendingAdds \cup {p}
  /\ UNCHANGED <<cfgVars, syncVars, envVars, exportVars, fileNamePattern, nameVars, hbVars,
                 cbVars, legacyLog, batchLog, adtPollErrors, lifeVars, codecVars,
                 timerVars, pendingFiles, lockTimers, processingQueue, processedFiles,
                 handoffLog, dupTimers, dupLock, dupAttempt, pausedReturns, msgVars>>

\* chokidar delivers 'add' for p: onFileAdded
OnFileAdded(p) ==
  /\ p \in pendingAdds
  /\ pendingAdds' = pendingAdds \ {p}
  /\ notified' = [notified EXCEPT ![p] = @ + 1]
  /\ debounceTimers' = onFileAdded(debounceTimers, p, notified[p] + 1)
  /\ pendingTimer' = [pendingTimer EXCEPT ![p] = notified[p] + 1]
  /\ pendingFiles' = pendingFiles \cup {p}
  /\ UNCHANGED <<cfgVars, syncVars, envVars, exportVars, fileNamePattern, nameVars, hbVars,
                 cbVars, legacyLog, batchLog, adtPollErrors, lifeVars, codecVars,
                 validated, watcher, stopCalls, afterStop, lockTimers, processingQueue,
                 processedFiles, handoffLog, dupTimers, dupLock, dupAttempt, pausedReturns, msgVars>>

\* a debounce timer fires: pendingFiles.delete, then validateAndQueueFile
DebounceTimerFire(t) ==
  /\ t \in debounceTimers
  /\ debounceTimers' = debounceTimers \ {t}
  /\ pendingTimer' = [pendingTimer EXCEPT ![t.path] = 0]
  /\ pendingFiles' = pendingFiles \ {t.path}
  /\ validated' = validated \cup {[path |-> t.path, id |-> t.id, newest |-> notified[t.path],
                                   locked |-> t.path \in locked]}
  /\ validateAndQueueFile(t.path, lockTimers, dupLock, FALSE)
  /\ afterStop' = queuedWhileStopped(t.path, handoffLog' # handoffLog)
  /\ UNCHANGED <<cfgVars, envVars, exportVars, fileNamePattern, nameVars, hbVars, cbVars,
                 legacyLog, batchLog, adtPollErrors, lifeVars, codecVars, notified, watcher,
                 stopCalls, pendingAdds, dupTimers, pausedReturns, msgVars>>

\* the 1 s re-validation timer of a locked file fires: validateAndQueueFile
RevalidateTimerFire(p) ==
  /\ lockTimers[p] > 0
  /\ validateAndQueueFile(p, [lockTimers EXCEPT ![p] = @ - 1], dupLock, FALSE)
  /\ afterStop' = queuedWhileStopped(p, handoffLog' # handoffLog)
  /\ UNCHANGED <<cfgVars, envVars, exportVars, fileNamePattern, nameVars, hbVars, cbVars,
                 legacyLog, batchLog, adtPollErrors, lifeVars, codecVars, debounceTimers,
                 pendingTimer, notified, validated, watcher, stopCalls, pendingAdds,
                 pendingFiles, dupTimers, pausedReturns, msgVars>>

\* FileWatcherService.stop up to its await of watcher.close(): chokidar delivers no
\* further notification
WatcherStopCall ==
  /\ watcher = "watching"
  /\ stopCalls < MaxWatcherStops
  /\ watcher' = "closing"
  /\ pendingAdds' = {}
  /\ UNCHANGED <<cfgVars, syncVars, envVars, exportVars, fileNamePattern, nameVars, hbVars,
                 cbVars, legacyLog, batchLog, adtPollErrors, lifeVars, codecVars,
                 debounceTimers, pendingTimer, notified, validated, stopCalls, afterStop,
                 pendingFiles, lockTimers, processingQueue, processedFiles, handoffLog,
                 dupTimers, dupLock, dupAttempt, pausedReturns, msgVars>>

\* FileWatcherService.stop after the await, to its return
WatcherStopReturn ==
  /\ watcher = "closing"
  /\ watcher' = "null"
  /\ debounceTimers' = stopClearsTimers(debounceTimers)
  /\ pendingTimer' = [p \in Files |-> 0]
  /\ pendingFiles' = {}
  /\ stopCalls' = stopCalls + 1
  /\ UNCHANGED <<cfgVars, syncVars, envVars, exportVars, fileNamePattern, nameVars, hbVars,
                 cbVars, legacyLog, batchLog, adtPollErrors, lifeVars, codecVars, notified,
                 validated, afterStop, pendingAdds, lockTimers, processingQueue,
                 processedFiles, handoffLog, dupTimers, dupLock, dupAttempt, pausedReturns, msgVars>>

\* FileWatcherService.start on a stopped watcher: chokidar scans the folder
WatcherStart ==
  /\ watcher = "null"
  /\ watcher' = "watching"
  /\ pendingAdds' = {p \in Files : loc[p] = "watch"}
  /\ afterStop' = afterStop
  /\ UNCHANGED <<cfgVars, syncVars, envVars, exportVars, fileNamePattern, nameVars, hbVars,
                 cbVars, legacyLog, batchLog, adtPollErrors, lifeVars, codecVars,
                 debounceTimers, pendingTimer, notified, validated, stopCalls,
                 pendingFiles, lockTimers, processingQueue, processedFiles, handoffLog,
                 dupTimers, dupLock, dupAttempt, pausedReturns, msgVars>>

\* ------------------------------------ SyncService.processFile, message by message
MaxFileMessages == 2
MaxActivityAdds == 102
SyncActivityCap == 100

\* addActivity dropping from a full log the newest of the items held, not the oldest
addActivityKeepsOldest(log, item) ==
  LET l == <<item>> \o log
  IN IF Len(l) > SyncActivityCap THEN <<item>> \o SubSeq(log, 2, SyncActivityCap) ELSE l

\* SyncService.addActivity
addActivity(log, item) ==
  LET l == <<item>> \o log
  IN IF Len(l) > SyncActivityCap THEN SubSeq(l, 1, SyncActivityCap) ELSE l

RecognizedTypes == {"ADT^A04", "ADT^A08", "ADT^A31", "DFT^P03", "ORU^R01"}

\* processHL7Message with a default branch that files the message as a note
remoteCallOfFilesUnknown(content) ==
  LET message == parseHL7(content)
      hasPid == segmentsOf(message, "PID") # <<>>
  IN CASE message.messageType \in {"ADT^A04", "ADT^A08", "ADT^A31"} ->
            IF hasPid THEN "upsertPatient" ELSE "none"
       [] message.messageType = "DFT^P03" ->
            IF parseEncounterFromDFT(message).kind # "null"
              THEN "createEncounterCharge" ELSE "none"
       [] message.messageType = "ORU^R01" ->
            IF hasPid THEN "createNote" ELSE "none"
       [] OTHER -> "createNote"

\* processHL7Message: the remote call it makes for a message, "none" when it makes none
remoteCallOf(content) ==
  LET message == parseHL7(content)
      hasPid == segmentsOf(message, "PID") # <<>>
  IN CASE message.messageType \in {"ADT^A04", "ADT^A08", "ADT^A31"} ->
            IF hasPid THEN "upsertPatient" ELSE "none"
       [] message.messageType = "DFT^P03" ->
            IF parseEncounterFromDFT(message).kind # "null"
              THEN "createEncounterCharge" ELSE "none"
       [] message.messageType = "ORU^R01" ->
            IF hasPid THEN "createNote" ELSE "none"
       [] OTHER -> "none"

\* handleFailedFile: a retry below maxRetries, the permanent failure otherwise
failFile(r, log, cause) ==
  IF r.retryCount < maxRetries
    THEN [run |-> [r EXCEPT !.state = "retry", !.pos = 0, !.errorsToday = @ + 1,
                            !.retryCount = @ + 1, !.causes = @ \cup {cause}],
          log |-> addActivity(log, "error")]
    ELSE [run |-> [r EXCEPT !.state = "failed", !.pos = 0, !.errorsToday = @ + 1,
                            !.retryCount = 0, !.causes = @ \cup {cause}],
          log |-> addActivity(log, "error")]

\* the for loop of processFile from message i on, to its next remote call or, past the
\* last message, to handleSuccessfulFile (whose delete or move throws when ~fsOk) and
\* the success item
RECURSIVE processMessages(_, _, _, _)
processMessages(r, log, i, fsOk) ==
  IF i > Len(fileContent)
    THEN IF fsOk
           THEN [run |-> [r EXCEPT !.state = "synced", !.pos = 0, !.retryCount = 0],
                 log |-> addActivity(log, "success")]
           ELSE failFile([r EXCEPT !.retryCount = 0, !.fsFaults = @ + 1], log, "fs")
  ELSE IF remoteCallOf(fileContent[i]) # "none"
    THEN [run |-> [r EXCEPT !.state = "awaiting", !.pos = i], log |-> log]
  ELSE IF parseHL7(fileContent[i]).messageType \notin RecognizedTypes
    THEN processMessages([r EXCEPT !.skipped = @ \cup {i}], addActivity(log, "info"),
                         i + 1, fsOk)
  ELSE processMessages(r, log, i + 1, fsOk)

\* the watcher hands the file over ('file-processing'): processFile to its first await
ProcessFile(fsOk) ==
  /\ run.state = "handed"
  /\ fsOk \/ run.fsFaults < MaxFsFaults
  /\ LET r == processMessages([run EXCEPT !.attempts = @ + 1], activityLog, 1, fsOk)
     IN run' = r.run /\ activityLog' = r.log
  /\ UNCHANGED <<cfgVars, watcherVars, syncVars, envVars, exportVars, fileNamePattern,
                 nameVars, hbVars, cbVars, legacyLog, batchLog, adtPollErrors, lifeVars,
                 codecVars, timerVars, fileContent, pausedReturns>>

\* the remote call of message run.pos returns (ok) or throws: processFile goes on with
\* the next message, or handleFailedFile schedules a retry or fails the file
RemoteCallReturns(ok, fsOk) ==
  /\ run.state = "awaiting"
  /\ fsOk \/ run.fsFaults < MaxFsFaults
  /\ LET r0 == [run EXCEPT !.calls = Append(@, [message |-> run.pos,
                                                 api |-> remoteCallOf(fileContent[run.pos]),
                                                 ok |-> ok])]
         r == IF ok THEN processMessages(r0, activityLog, run.pos + 1, fsOk)
                    ELSE failFile(r0, activityLog, "remote")
     IN run' = r.run /\ activityLog' = r.log
  /\ UNCHANGED <<cfgVars, watcherVars, syncVars, envVars, exportVars, fileNamePattern,
                 nameVars, hbVars, cbVars, legacyLog, batchLog, adtPollErrors, lifeVars,
                 codecVars, timerVars, fileContent, pausedReturns>>

\* the 5 s retry timer fires: 'file-processing' is emitted again
RetryFile ==
  /\ run.state = "retry"
  /\ run' = [run EXCEPT !.state = "handed"]
  /\ UNCHANGED <<cfgVars, watcherVars, syncVars, envVars, exportVars, fileNamePattern,
                 nameVars, hbVars, cbVars, legacyLog, batchLog, adtPollErrors, lifeVars,
                 codecVars, timerVars, fileContent, activityLog, pausedReturns>>

\* ---- the messages a file can hold
MsgTypeFields == {<<"ADT", "^", "A04">>, <<"ADT", "^", "A31">>, <<"DFT", "^", "P03">>,
                  <<"ORU", "^", "R01">>, <<"ADT", "^", "A01">>}

MessageTexts ==
  {MshSegment(<<"CLINIC">>, t) : t \in MsgTypeFields}
    \cup {MshSegment(<<"CLINIC">>, t) \o <<HL7_SEGMENT_SEPARATOR>>
            \o PidSegment(<<"12345">>, <<"Smith">>) : t \in MsgTypeFields}

FileContents == BoundedSeqs(MessageTexts, MaxFileMessages) \ {<<>>}

\* ---- the two activity logs filled item by item; an item is its sequence number
NextItem(log, numberOf(_)) == IF log = <<>> THEN 1 ELSE numberOf(Head(log)) + 1

\* SyncService adds an activity item
AddActivity ==
  /\ NextItem(activityLog, LAMBDA item : item) <= MaxActivityAdds
  /\ activityLog' = addActivity(activityLog, NextItem(activityLog, LAMBDA item : item))
  /\ UNCHANGED <<cfgVars, watcherVars, syncVars, envVars, exportVars, fileNamePattern,
                 nameVars, hbVars, cbVars, legacyLog, batchLog, adtPollErrors, lifeVars,
                 codecVars, timerVars, fileContent, run, pausedReturns>>

\* ExportService adds an activity item
ExportAddActivity ==
  /\ NextItem(exportActivity, LAMBDA item : item.message) <= MaxActivityAdds
  /\ exportActivity' = exportAddActivity(exportActivity, "info",
                                         NextItem(exportActivity, LAMBDA item : item.message))
  /\ UNCHANGED <<cfgVars, watcherVars, syncVars, envVars, adtEnabled, exportPaused, polls,
                 pollsStarted, exportedToday, exportErrorsToday, disk, diskWrites, now,
                 nextFetchId, fetchLog, confirmCalls, markCalls, confirmThrows,
                 claimsWritten, adtWritten, auxVars, pausedReturns>>

\* no file handed to processFile, nothing logged
NoRun == [state |-> "none", pos |-> 0, attempts |-> 0, calls |-> <<>>, skipped |-> {},
          errorsToday |-> 0, retryCount |-> 0, fsFaults |-> 0, causes |-> {}]

InitNoFile == fileContent = <<>> /\ run = NoRun /\ activityLog = <<>>

\* the watcher started, no timer armed, nothing delivered yet
InitTimers ==
  /\ debounceTimers = {} /\ pendingTimer = [p \in Files |-> 0]
  /\ notified = [p \in Files |-> 0] /\ validated = {}
  /\ watcher = "watching" /\ stopCalls = 0 /\ afterStop = {}

\* no codec run: nothing generated, parsed or split
InitCodecIdle ==
  /\ exportClaim = NoClaim /\ rawText = <<>> /\ encounter = NoEncounter
  /\ batchInput = <<>> /\ batchMessages = <<>> /\ codecPc = "idle"

\* the service as constructed: never started
InitLifecycle ==
  /\ startCalls = [s \in StartCalls |-> IdleStart]
  /\ pollInterval = 0 /\ intervals = {} /\ stops = 0
  /\ stopReturned = FALSE /\ pollAfterStop = FALSE

\* no naming batch: the default file name pattern
InitAux ==
  /\ fileNamePattern = <<>>
  /\ batch = [kind |-> "none", records |-> <<>>]
  /\ batchNames = <<>>
  /\ InitHeartbeats({<<"k">>})
  /\ InitWatcherCallback(FALSE)
  /\ legacyLog = {} /\ batchLog = {} /\ adtPollErrors = {}
  /\ InitLifecycle
  /\ InitCodecIdle
  /\ InitTimers
  /\ InitNoFile

\* one file in the watch folder, every configuration
Init ==
  /\ watcherImpl \in {"plain", "tracked"}
  /\ fileSize = [p \in Files |-> 1]
  /\ maxRetries \in 0..MaxRetriesCfg
  /\ deleteAfterSync \in BOOLEAN
  /\ moveToProcessed \in BOOLEAN
  /\ failedFolder \in BOOLEAN
  /\ InitWith({1})
  /\ adtEnabled = TRUE
  /\ InitExport
  /\ InitAux

\* every path holds a file, DEFAULT_CONFIG's behaviour and one retry
InitFolder ==
  /\ watcherImpl \in {"plain", "tracked"}
  /\ fileSize = [p \in Files |-> 1]
  /\ maxRetries = 1
  /\ deleteAfterSync = FALSE
  /\ moveToProcessed = TRUE
  /\ failedFolder = TRUE
  /\ InitWith(Files)
  /\ adtEnabled = TRUE
  /\ InitExport
  /\ InitAux

\* the export orchestrator alone: an empty watch folder, DEFAULT_CONFIG's behaviour
InitExportOnly ==
  /\ watcherImpl = "plain"
  /\ fileSize = [p \in Files |-> 1]
  /\ maxRetries = 1
  /\ deleteAfterSync = FALSE
  /\ moveToProcessed = TRUE
  /\ failedFolder = TRUE
  /\ InitWith({})
  /\ adtEnabled \in BOOLEAN
  /\ InitExport
  /\ InitAux

\* the file name patterns tried: unset, one without the .hl7 extension, one without
\* the timestamp
Patterns == {<<>>,
             <<"DFT_", "{clinicCode}", "_", "{timestamp}", ".txt">>,
             <<"{clinicCode}", ".hl7">>}
PatientRecords == {"1", "2"}
\* two claims with different ids
ClaimBatches ==
  {b \in {[kind |-> "claims", records |-> <<x, y>>] : x \in ClaimIds, y \in ClaimIds} :
     b.records[1] # b.records[2]}
\* two insurance updates with different queue ids
AdtBatches ==
  {[kind |-> "adt",
    records |-> <<[queueId |-> 1, proclaimPatientRecord |-> x],
                  [queueId |-> 2, proclaimPatientRecord |-> y]>>] :
     x \in PatientRecords, y \in PatientRecords}

\* a batch of two records about to be written within one second, any pattern
InitNames ==
  /\ watcherImpl = "plain"
  /\ fileSize = [p \in Files |-> 1]
  /\ maxRetries = 1
  /\ deleteAfterSync = FALSE
  /\ moveToProcessed = TRUE
  /\ failedFolder = TRUE
  /\ InitWith({})
  /\ adtEnabled = TRUE
  /\ InitExport
  /\ fileNamePattern \in Patterns
  /\ \/ batch \in ClaimBatches
     \/ batch \in AdtBatches
  /\ batchNames = <<>>
  /\ InitHeartbeats({<<"k">>})
  /\ InitWatcherCallback(FALSE)
  /\ legacyLog = {} /\ batchLog = {} /\ adtPollErrors = {}
  /\ InitLifecycle
  /\ InitCodecIdle
  /\ InitTimers
  /\ InitNoFile

NameNext ==
  \/ WriteClaimFile
  \/ WriteAdtFile

NameSpec == InitNames /\ [][NameNext]_vars

Next ==
  \/ \E p \in Files : WatcherAdd(p)
  \/ \E p \in Files : DebounceFire(p)
  \/ \E p \in Files, dup \in BOOLEAN : LockTimerFire(p, dup)
  \/ \E p \in Files, i \in MsgIdx, ok \in BOOLEAN, fsOk \in BOOLEAN : RemoteReturn(p, i, ok, fsOk)
  \/ \E p \in Files : RetryTimerFire(p)
  \/ \E p \in Files : Unlock(p)
  \/ SyncNow
  \/ Pause
  \/ Resume

Spec == Init /\ [][Next]_vars

\* the tracked watcher alone with a processing callback registered, every path
\* holding a file
InitCallback ==
  /\ watcherImpl = "tracked"
  /\ fileSize = [p \in Files |-> 1]
  /\ maxRetries = 1
  /\ deleteAfterSync = FALSE
  /\ moveToProcessed = TRUE
  /\ failedFolder = TRUE
  /\ InitWith(Files)
  /\ adtEnabled = TRUE
  /\ InitExport
  /\ fileNamePattern = <<>>
  /\ batch = [kind |-> "none", records |-> <<>>]
  /\ batchNames = <<>>
  /\ InitHeartbeats({<<"k">>})
  /\ InitWatcherCallback(TRUE)
  /\ legacyLog = {} /\ batchLog = {} /\ adtPollErrors = {}
  /\ InitLifecycle
  /\ InitCodecIdle
  /\ InitTimers
  /\ InitNoFile

CallbackNext ==
  \/ \E p \in Files : ChokidarRepeats(p)
  \/ \E p \in Files : CallbackAdd(p)
  \/ \E p \in Files : CallbackDebounceFire(p)
  \/ \E p \in Files : CallbackLockTimerFire(p)
  \/ \E threw \in BOOLEAN : CallbackSettles(threw)
  \/ ImmediateFire
  \/ \E p \in Files : Unlock(p)

CallbackSpec == InitCallback /\ [][CallbackNext]_vars

LifecycleNext ==
  \/ \E s \in StartCalls, o \in AttemptOutcomes : StartCall(s, o)
  \/ \E s \in StartCalls, o \in AttemptOutcomes : AccessTimerFire(s, o)
  \/ StopCall
  \/ \E i \in 1..MaxStarts : IntervalTick(i)

\* start() and stop() of the export orchestrator alone
LifecycleSpec == InitExportOnly /\ [][LifecycleNext]_vars

\* the heartbeat alone, with and without an API key
InitHeartbeatOnly ==
  /\ watcherImpl = "plain"
  /\ fileSize = [p \in Files |-> 1]
  /\ maxRetries = 1
  /\ deleteAfterSync = FALSE
  /\ moveToProcessed = TRUE
  /\ failedFolder = TRUE
  /\ InitWith({})
  /\ adtEnabled = TRUE
  /\ InitExport
  /\ fileNamePattern = <<>>
  /\ batch = [kind |-> "none", records |-> <<>>]
  /\ batchNames = <<>>
  /\ InitHeartbeats({<<>>, <<"k">>})
  /\ InitWatcherCallback(FALSE)
  /\ legacyLog = {} /\ batchLog = {} /\ adtPollErrors = {}
  /\ InitLifecycle
  /\ InitCodecIdle
  /\ InitTimers
  /\ InitNoFile

HeartbeatNext ==
  \/ \E h \in Heartbeats : SendHeartbeat(h)
  \/ \E h \in Heartbeats, o \in PostOutcomes : HeartbeatReturn(h, o)

HeartbeatSpec == InitHeartbeatOnly /\ [][HeartbeatNext]_vars
FolderSpec == InitFolder /\ [][Next]_vars

\* the file sizes tried: small, exactly the limit, one byte over it
Sizes == {1, MAX_FILE_SIZE, MAX_FILE_SIZE + 1}

\* one file of any of the sizes tried in the watch folder, DEFAULT_CONFIG's behaviour
\* and one retry
InitSize ==
  /\ watcherImpl \in {"plain", "tracked"}
  /\ fileSize \in [Files -> Sizes]
  /\ maxRetries = 1
  /\ deleteAfterSync = FALSE
  /\ moveToProcessed = TRUE
  /\ failedFolder = TRUE
  /\ InitWith({1})
  /\ adtEnabled = TRUE
  /\ InitExport
  /\ InitAux

SizeSpec == InitSize /\ [][Next]_vars

\* the services idle: an empty watch folder, nothing polled, nothing started
InitNoService ==
  /\ watcherImpl = "plain"
  /\ fileSize = [p \in Files |-> 1]
  /\ maxRetries = 1
  /\ deleteAfterSync = FALSE
  /\ moveToProcessed = TRUE
  /\ failedFolder = TRUE
  /\ InitWith({})
  /\ adtEnabled = TRUE
  /\ InitExport
  /\ fileNamePattern = <<>>
  /\ batch = [kind |-> "none", records |-> <<>>]
  /\ batchNames = <<>>
  /\ InitHeartbeats({<<"k">>})
  /\ InitWatcherCallback(FALSE)
  /\ legacyLog = {} /\ batchLog = {} /\ adtPollErrors = {}
  /\ InitLifecycle
  /\ InitTimers

\* the watcher started on a folder in which every path holds a file
InitWatcher ==
  /\ watcherImpl = "plain"
  /\ fileSize = [p \in Files |-> 1]
  /\ maxRetries = 1
  /\ deleteAfterSync = FALSE
  /\ moveToProcessed = TRUE
  /\ failedFolder = TRUE
  /\ InitWith(Files)
  /\ adtEnabled = TRUE
  /\ InitExport
  /\ InitAux

WatcherNext ==
  \/ \E p \in Files : ChokidarAdd(p)
  \/ \E p \in Files : OnFileAdded(p)
  \/ \E t \in debounceTimers : DebounceTimerFire(t)
  \/ \E p \in Files : RevalidateTimerFire(p)
  \/ \E p \in Files : Unlock(p)
  \/ WatcherStopCall
  \/ WatcherStopReturn
  \/ WatcherStart

WatcherSpec == InitWatcher /\ [][WatcherNext]_vars

\* the timers of the runtime fire
WatcherFairSpec ==
  /\ WatcherSpec
  /\ \A p \in Files : WF_vars(RevalidateTimerFire(p))
  /\ \A p \in Files : \A n \in 1..(MaxNotifications + MaxWatcherStops + 1) :
       WF_vars(DebounceTimerFire(Timer(p, n)))
  /\ \A p \in Files : WF_vars(OnFileAdded(p))

\* one file of one or two messages handed to processFile
InitMessages ==
  /\ InitNoService
  /\ InitCodecIdle
  /\ fileContent \in FileContents
  /\ run = [NoRun EXCEPT !.state = "handed"]
  /\ activityLog = <<>>

MessageNext ==
  \/ \E fsOk \in BOOLEAN : ProcessFile(fsOk)
  \/ \E ok \in BOOLEAN, fsOk \in BOOLEAN : RemoteCallReturns(ok, fsOk)
  \/ RetryFile

MessageSpec == InitMessages /\ [][MessageNext]_vars

\* both services constructed, their activity logs empty
InitActivity ==
  /\ InitNoService
  /\ InitCodecIdle
  /\ InitNoFile

ActivityNext == AddActivity \/ ExportAddActivity

ActivitySpec == InitActivity /\ [][ActivityNext]_vars

\* one file in the watch folder, processed files moved or deleted, either watcher
InitReuse ==
  /\ watcherImpl \in {"plain", "tracked"}
  /\ fileSize = [p \in Files |-> 1]
  /\ maxRetries = 1
  /\ deleteAfterSync \in BOOLEAN
  /\ moveToProcessed = TRUE
  /\ failedFolder = TRUE
  /\ InitWith({1})
  /\ adtEnabled = TRUE
  /\ InitExport
  /\ InitAux

ReuseNext ==
  \/ \E p \in Files : WatcherAdd(p)
  \/ \E p \in Files : DebounceFire(p)
  \/ \E p \in Files, dup \in BOOLEAN : LockTimerFire(p, dup)
  \/ \E p \in Files, i \in MsgIdx, ok \in BOOLEAN, fsOk \in BOOLEAN : RemoteReturn(p, i, ok, fsOk)
  \/ \E p \in Files : RetryTimerFire(p)
  \/ \E p \in Files : Unlock(p)
  \/ \E p \in Files : FileCreated(p)

ReuseSpec == InitReuse /\ [][ReuseNext]_vars

\* a charge message read from a file
InitParse ==
  /\ InitNoService
  /\ InitNoFile
  /\ exportClaim = NoClaim /\ rawText \in DftTexts /\ encounter = NoEncounter
  /\ batchInput = <<>> /\ batchMessages = <<>> /\ codecPc = "text"

ParseNext == ParseDFT

ParseSpec == InitParse /\ [][ParseNext]_vars

\* a claim fetched for export
InitRoundTrip ==
  /\ InitNoService
  /\ InitNoFile
  /\ exportClaim \in ExportClaims /\ rawText = <<>> /\ encounter = NoEncounter
  /\ batchInput = <<>> /\ batchMessages = <<>> /\ codecPc = "claim"

RoundTripNext == GenerateDFT \/ ParseDFT

RoundTripSpec == InitRoundTrip /\ [][RoundTripNext]_vars

\* a batch file in the watch folder
InitBatch ==
  /\ InitNoService
  /\ InitNoFile
  /\ exportClaim = NoClaim /\ rawText = <<>> /\ encounter = NoEncounter
  /\ batchInput \in BoundedSeqs(BatchMessageTexts, MaxBatchMessages)
  /\ batchMessages = <<>> /\ codecPc = "batch"

BatchNext == SplitBatch

BatchSpec == InitBatch /\ [][BatchNext]_vars




ExportNext ==
  \/ PollTick
  \/ \E c \in 1..MaxPolls, n \in 0..MaxClaims, legacy \in BOOLEAN :
       \E written \in SUBSET (1..n) : PendingExportsReturn(c, n, legacy, written)
  \/ \E c \in 1..MaxPolls : PendingExportsThrow(c)
  \/ \E c \in 1..MaxPolls, ok \in BOOLEAN : ConfirmExportReturn(c, ok)
  \/ \E c \in 1..MaxPolls, ok \in BOOLEAN : MarkExportedReturn(c, ok)
  \/ \E c \in 1..MaxPolls, n \in 0..MaxAdtExports :
       \E missing \in SUBSET (1..n), unwritable \in SUBSET (1..n) :
         PendingAdtExportsReturn(c, n, missing, unwritable)
  \/ \E c \in 1..MaxPolls, failure \in AdtPollFailures : PendingAdtExportsThrow(c, failure)
  \/ \E c \in 1..MaxPolls, ok \in BOOLEAN : ConfirmAdtExportReturn(c, ok)
  \/ ExportPause
  \/ ExportResume

ExportSpec == InitExportOnly /\ [][ExportNext]_vars

\* insurance-update batches of up to MaxAdtBatch records, next to claim batches of at
\* most one claim
AdtNext ==
  \/ PollTick
  \/ \E c \in 1..MaxPolls, n \in 0..1 :
       \E written \in SUBSET (1..n) : PendingExportsReturn(c, n, FALSE, written)
  \/ \E c \in 1..MaxPolls : PendingExportsThrow(c)
  \/ \E c \in 1..MaxPolls, ok \in BOOLEAN : ConfirmExportReturn(c, ok)
  \/ \E c \in 1..MaxPolls, n \in 0..MaxAdtBatch :
       \E missing \in SUBSET (1..n), unwritable \in SUBSET (1..n) :
         PendingAdtExportsReturn(c, n, missing, unwritable)
  \/ \E c \in 1..MaxPolls, failure \in AdtPollFailures : PendingAdtExportsThrow(c, failure)
  \/ \E c \in 1..MaxPolls, ok \in BOOLEAN : ConfirmAdtExportReturn(c, ok)

AdtSpec == InitExportOnly /\ [][AdtNext]_vars

\* -------------------------------------------------------------- properties
\* A step in which handleFailedFile runs for p after a failed remote call, of a file
\* no attempt of which has had all its messages accepted.
FailsAgain(p) == failCount'[p] = failCount[p] + 1 /\ messages(p) \notin acked'[p]

SucceedsOnLastTry(p) ==
  /\ maxRetries >= 1
  /\ okCount[p] = 0 /\ okCount'[p] = 1
  /\ failCount[p] = maxRetries - 1

C3_NoAttemptFromRedelivery == dupAttempt = {}

\* C4: the watcher hands a file to processFile only when no other file is in flight
\* (handed off and not yet disposed of).
C4_OneFileInFlight ==
  [][\A q \in Files :
       (handoffLog' = Append(handoffLog, q) /\ ~isPaused) =>
         \A p \in Files \ {q} : ~InFlight(p)]_vars

FirstHandoff(p) == CHOOSE i \in 1..Len(handoffLog) :
                     handoffLog[i] = p /\ \A j \in 1..(i - 1) : handoffLog[j] # p
WasHandedOff(p) == \E i \in 1..Len(handoffLog) : handoffLog[i] = p

\* C5: of two files of the watch folder, the one created first is handed to the
\* orchestrator first.
C5_OldestFirst ==
  \A a, b \in Files :
    (createdAt(a) < createdAt(b) /\ WasHandedOff(b)) =>
      (WasHandedOff(a) /\ FirstHandoff(a) < FirstHandoff(b))

\* Nothing is scheduled that would make the agent touch p again.
NothingPending(p) ==
  /\ ~InFlight(p) /\ retryTimers[p] = 0
  /\ p \notin pendingAdds /\ p \notin pendingFiles /\ lockTimers[p] = 0
Terminal(p) == okCount[p] > 0 \/ p \in permFailed

\* C7 (finite form): once the service is resumed and nothing is pending for a file
\* that was handed to processFile, the file has reached a terminal disposition.
C7_HandedFileIsDisposed ==
  \A p \in Files : (p \in handed /\ ~isPaused /\ NothingPending(p)) => Terminal(p)

\* C8: a message whose remote call returned successfully is not submitted again.
C8_NoResubmission == resubmitted = {}

\* the confirm calls that carry the correlation id of the fetch f
ConfirmsOf(f) == {k \in 1..Len(confirmCalls) : confirmCalls[k].request.fetchId = f.fetchId}

ConfirmFailedMessages == {"Confirmation failed (files written locally)",
                          "ADT confirmation failed (files written locally)"}
OtherErrorMessages == {"Poll failed", "ADT poll failed", "Export failed"}

\* the activity items a step puts on the log, newest first
NewActivity == SubSeq(exportActivity', 1, Len(exportActivity') - Len(exportActivity))

\* C9: the step in which confirmExport or confirmAdtExport throws writes, removes and
\* rewrites no export file, and puts on the activity log one error item saying the
\* confirmation failed with the files written locally, and no poll-failed or
\* export-failed item.
C9_ConfirmFailureKeepsFiles ==
  [][confirmThrows' > confirmThrows =>
       /\ disk' = disk /\ diskWrites' = diskWrites
       /\ Cardinality({k \in 1..Len(NewActivity) :
              /\ NewActivity[k].type = "error"
              /\ NewActivity[k].message \in ConfirmFailedMessages}) = 1
       /\ \A k \in 1..Len(NewActivity) :
            NewActivity[k].message \notin OtherErrorMessages]_vars

\* C9 witness: a claim file was written, the confirmation threw, the file is on disk
\* and the log ends with the confirmation error and the export success
C9_Witness ==
  /\ confirmThrows = 1 /\ claimsWritten = 1 /\ Cardinality(disk) = 1
  /\ Len(exportActivity) = 2
  /\ exportActivity[1] = [type |-> "success", message |-> "Exported claim(s)"]
  /\ exportActivity[2] = [type |-> "error",
                          message |-> "Confirmation failed (files written locally)"]

\* C10: exportedToday is the number of export files written by the batches
\* processed so far: the written claims of every ended claim batch, with or without
\* a correlation id and whatever the confirm or mark-exported call did, and the
\* written insurance updates.
C10_ExportedTodayCountsWritten == exportedToday = claimsWritten + adtWritten

\* C11: the distinct records of a batch written within one second get different
\* file names, whatever the file name pattern.
C11_DistinctRecordsDistinctNames ==
  \A i, j \in 1..Len(batchNames) : i # j => batchNames[i] # batchNames[j]

\* Where the success disposition of the configuration puts a file that is at l.
SuccessLoc(l) == IF deleteAfterSync THEN "deleted"
                 ELSE IF moveToProcessed THEN "processed" ELSE l

\* C13: while the service is paused, a remote call of a file in flight that settles
\* is followed as when not paused (the failure is handled, or the next message is
\* sent, or after the last message the file gets its success disposition), and a
\* file handed to processFile by the watcher or by a retry timer has no remote call
\* issued and no disposition.
C13_PauseIsAdvisory ==
  [][isPaused =>
       \A p \in Files :
         /\ \A i \in MsgIdx :
              inflight'[p][i] = inflight[p][i] - 1 =>
                \/ failCount'[p] = failCount[p] + 1
                \/ /\ i < messages(p)
                   /\ inflight'[p][i + 1] = inflight[p][i + 1] + 1
                   /\ loc'[p] = loc[p]
                \/ /\ i = messages(p)
                   /\ okCount'[p] = okCount[p] + 1
                   /\ loc'[p] = SuccessLoc(loc[p])
         /\ (handoffLog' # handoffLog \/ retryTimers'[p] = retryTimers[p] - 1) =>
              /\ inflight' = inflight /\ loc' = loc
              /\ okCount' = okCount /\ failCount' = failCount]_vars

\* C13 witness: the two-message file was disposed as a success by a call that settled
\* during a pause, and the service is still paused
C13_Witness ==
  /\ isPaused /\ 1 \in pausedReturns /\ okCount[1] = 1 /\ failCount[1] = 0
  /\ acked[1] = {1, 2} /\ loc[1] = "processed" /\ ~InFlight(1)

\* C14: while ExportService is paused no pending-exports request and no
\* pending-adt-exports request is issued and no export file is written.
C14_NothingWhilePaused ==
  [][exportPaused =>
       /\ diskWrites' = diskWrites /\ disk' = disk
       /\ \A c \in 1..MaxPolls :
            polls'[c].pc \in {"getPendingExports", "getPendingAdtExports"} =>
              polls'[c].pc = polls[c].pc]_vars

\* the remote call of message i of a run of p settles in this step
Settles(p, i) == inflight'[p][i] = inflight[p][i] - 1
\* a remote call for message i of p is issued in this step
Sends(p, i) == inflight'[p][i] = inflight[p][i] + 1
\* no remote call is issued for p in this step
SendsNone(p) == \A j \in MsgIdx : inflight'[p][j] <= inflight[p][j]

\* C15: within an attempt the messages of a file are sent in document order, each
\* after the remote call of the one before it succeeded; the first failing call
\* fails the whole file with no later message sent; the success disposition
\* (delete/move, syncedToday incremented) is given only when the call of the last
\* message succeeded, and never by a step that handles a failure.
C15_WholeFileSuccess ==
  [][\A p \in Files :
       /\ \A i \in MsgIdx :
            /\ (Sends(p, i) /\ i > 1) =>
                 /\ Settles(p, i - 1) /\ (i - 1) \in acked'[p]
                 /\ failCount'[p] = failCount[p] /\ okCount'[p] = okCount[p]
            /\ (Sends(p, i) /\ i = 1) =>
                 /\ \A j \in MsgIdx : ~Settles(p, j)
                 /\ failCount'[p] = failCount[p] /\ okCount'[p] = okCount[p]
            /\ (Settles(p, i) /\ i \notin acked'[p]) =>
                 /\ failCount'[p] = failCount[p] + 1
                 /\ SendsNone(p)
       /\ failCount'[p] # failCount[p] =>
            /\ SendsNone(p) /\ okCount'[p] = okCount[p]
            /\ syncedToday' = syncedToday
            /\ loc'[p] \in {loc[p], "failed"}
       /\ okCount'[p] # okCount[p] =>
            /\ okCount'[p] = okCount[p] + 1 /\ syncedToday' = syncedToday + 1
            /\ Settles(p, messages(p)) /\ messages(p) \in acked'[p]
            /\ SendsNone(p)
            /\ loc'[p] = SuccessLoc(loc[p])
       /\ loc'[p] \in {"deleted", "processed"} /\ loc[p] = "watch" =>
            okCount'[p] = okCount[p] + 1]_vars

\* C15 witness: the first attempt of the two-message file failed on its second
\* message after the first was accepted, and the retry is not yet due
C15_Witness ==
  /\ acked[1] = {1} /\ failCount[1] = 1 /\ okCount[1] = 0 /\ loc[1] = "watch"
  /\ ~InFlight(1) /\ retryTimers[1] = 1 /\ handoffLog = <<1>>

\* C16: whenever a failure reaches the permanent-failure threshold, the file is
\* moved out of the watch folder into the failed folder, its retry-ledger entry is
\* removed and a file-failed event is emitted, also when no failed folder is
\* configured or the move itself fails.
C16_PermanentFailureSurfaced ==
  [][\A p \in Files :
       (failCount'[p] = failCount[p] + 1 /\ retryCount[p] >= maxRetries) =>
         /\ retryCount'[p] = 0
         /\ loc'[p] # "watch"
         /\ p \in fileFailed']_vars

\* C17: every heartbeat attempt ends in exactly one event: heartbeat-sent on
\* success, credentials-invalid when the failure is a missing API key or a 401
\* response, heartbeat-failed for any other failure; a missing API key gives
\* credentials-invalid without a remote request.
C17_HeartbeatOutcome ==
  \A h \in Heartbeats :
    heartbeats[h].pc = "done" =>
      LET o == heartbeats[h].outcome
          credentials == o.kind = "nokey" \/ (o.kind = "status" /\ o.status = <<"4", "0", "1">>)
      IN /\ heartbeats[h].events =
              << IF o.kind = "ok" THEN "heartbeat-sent"
                 ELSE IF credentials THEN "credentials-invalid"
                 ELSE "heartbeat-failed" >>
         /\ o.kind = "nokey" => heartbeats[h].posts = 0

\* C18: in every reachable state the retry ledger's consecutive-failure count of
\* every path is at most maxRetries, under any interleaving of attempts, retries
\* and re-deliveries of that path.
C18_LedgerAtMostMaxRetries == \A p \in Files : retryCount[p] <= maxRetries

\* C18 witness: with two retries configured the ledger stands at two while an
\* attempt of the file is in flight and another failure of it was already handled
C18_Witness ==
  /\ maxRetries = 2 /\ retryCount[1] = 2 /\ failCount[1] >= 2 /\ InFlight(1)

\* C19: in every reachable state the watcher's processing queue contains at most
\* one entry per file path, under any interleaving of add-notifications, debounce
\* expiries, locked-file re-validation timers and dequeues.
C19_QueuedAtMostOnce ==
  \A i, j \in 1..Len(processingQueue) :
    i # j => processingQueue[i].filePath # processingQueue[j].filePath

\* the markExported calls of the poll cycle of the legacy fetch l
MarksOf(l) == {k \in 1..Len(markCalls) : markCalls[k].poll = l.poll}

\* C20: when a pending-exports response carries no correlation id, confirmExport is
\* never called for the batch; markExported is called at most once for it, only if
\* at least one claim file was written, and its claimIds are exactly the ids of the
\* claims whose file was written. markExported is called for no other batch.
C20_LegacyMarksWritten ==
  /\ \A l \in legacyLog :
       /\ \A k \in 1..Len(confirmCalls) :
            ~(confirmCalls[k].poll = l.poll /\ confirmCalls[k].request.endpoint = "confirm-export")
       /\ Cardinality(MarksOf(l)) = (IF l.writtenIds = {} THEN 0 ELSE 1)
       /\ \A k \in MarksOf(l) : markCalls[k].claimIds = l.writtenIds
  /\ \A k \in 1..Len(markCalls) : \E l \in legacyLog : l.poll = markCalls[k].poll

\* C20 witness: a legacy batch of two claims of which only the second was written has
\* been marked, and another legacy batch of which nothing was written has ended
C20_Witness ==
  \E l, m \in legacyLog :
    /\ l.count = 2 /\ l.writtenIds = {2}
    /\ \E k \in MarksOf(l) : markCalls[k].claimIds = {2}
    /\ m.poll # l.poll /\ m.writtenIds = {} /\ polls[m.poll].pc \notin {"getPendingExports", "markExported"}

\* the confirmAdtExport calls that carry the correlation id of the batch b
AdtConfirmsOf(b) ==
  {k \in 1..Len(confirmCalls) : /\ confirmCalls[k].request.fetchId = b.fetchId
                                /\ confirmCalls[k].request.endpoint = "confirm-adt-export"}

\* C21: in an insurance-update batch a record without proclaimPatientRecord gets no
\* file and a success=false result for its queueId, and every other record of the
\* batch is still processed and reported in the same confirmAdtExport call.
C21_MissingRecordFailsAlone ==
  \A b \in batchLog :
    b.endpoint = "confirm-adt-export" =>
      /\ b.missing \cap b.written = {}
      /\ \E k \in AdtConfirmsOf(b) :
           LET results == confirmCalls[k].request.results
           IN \A i \in 1..b.count :
                \E j \in 1..Len(results) :
                  /\ results[j].id = i
                  /\ i \in b.missing => ~results[j].success
                  /\ i \in b.written => results[j].success

\* C21 witness: a batch of two records whose first has no proclaimPatientRecord: the
\* second was written and both were reported
C21_Witness ==
  \E b \in batchLog :
    /\ b.endpoint = "confirm-adt-export" /\ b.count = 2
    /\ b.missing = {1} /\ b.written = {2}
    /\ \E k \in AdtConfirmsOf(b) : Len(confirmCalls[k].request.results) = 2

\* the poll cycles whose pending-adt-exports request fails with a 404 in this step
NotFoundNow ==
  {e.poll : e \in {x \in adtPollErrors' \ adtPollErrors :
                     x.kind = "status" /\ x.status = <<"4", "0", "4">>}}

\* C22: a not-found (404) failure of the pending-adt-exports poll leaves the export
\* state unchanged: no activity item is added, errorsToday is not incremented, no
\* file is written, no request is issued, and the cycle ends as it does after an
\* empty response, so that the next cycle finds the state a cycle without insurance
\* updates leaves.
C22_NotFoundIsSilent ==
  [][\A c \in NotFoundNow :
       /\ exportActivity' = exportActivity
       /\ exportErrorsToday' = exportErrorsToday /\ exportedToday' = exportedToday
       /\ disk' = disk /\ diskWrites' = diskWrites
       /\ confirmCalls' = confirmCalls /\ markCalls' = markCalls
       /\ exportPaused' = exportPaused /\ pollsStarted' = pollsStarted
       /\ polls' = [polls EXCEPT ![c] = DonePoll]]_vars

\* C22 witness: the first cycle's insurance-update poll failed with a 404, nothing was
\* logged, and the second cycle has fetched, written and reported an insurance update
C22_Witness ==
  /\ \E e \in adtPollErrors : e.poll = 1 /\ e.status = <<"4", "0", "4">>
  /\ exportActivity = <<>> /\ exportErrorsToday = 0
  /\ \E b \in batchLog : b.poll = 2 /\ b.endpoint = "confirm-adt-export" /\ b.written = {1}
  /\ polls[2].pc = "confirmAdtExport"

\* C23: after stop() has returned no further export poll is initiated until start()
\* is called again, for every sequence and interleaving of start() and stop() calls,
\* including a stop() issued while start() is still waiting for folder access.
C23_NoPollAfterStop == ~pollAfterStop

\* the errors of a folder that is not ready
NotReadyErrors == {e \in FolderErrors : e[1] \in {"ENOENT", "EACCES", "EPERM"}}

\* C24: the folder access wait never gives up on a not-ready folder: after an
\* ENOENT/EACCES/EPERM error on attempt a it waits 3 s (a <= 10), 30 s (a <= 20) or
\* 60 s (afterwards), a delay that never decreases, and tries again; it returns on
\* the attempt that finds or creates the folder; any other error is propagated on
\* the attempt where it occurs and is not retried.
C24_FolderWait ==
  [][\A s \in StartCalls :
       LET old == startCalls[s]
           new == startCalls'[s]
       IN /\ new # old =>
               /\ new.attempt = old.attempt + 1
               /\ old.pc \in {"idle", "waiting"}
               /\ new.error \in NotReadyErrors <=> new.pc = "waiting"
               /\ new.error = <<>> <=> new.pc = "done"
               /\ new.error \in FolderErrors \ NotReadyErrors <=> new.pc = "threw"
               /\ new.delay >= old.delay
               /\ new.pc = "waiting" =>
                    new.delay = (IF new.attempt <= 10 THEN 3000
                                 ELSE IF new.attempt <= 20 THEN 30000 ELSE 60000)
          /\ old.pc \in {"done", "threw"} => new = old]_vars

\* C24 witness: the twenty-first attempt met a not-ready folder after twenty others
\* had, and the wait goes on with the long delay
C24_Witness ==
  /\ startCalls[1].pc = "waiting" /\ startCalls[1].attempt = 21
  /\ startCalls[1].delay = 60000 /\ startCalls[1].error[1] = "EPERM"

\* the debounce timer of p fires in this step and validateAndQueueFile finds the file
\* in the watch folder
Validates(p) ==
  /\ p \in pendingFiles /\ p \notin pendingFiles' /\ syncNows' = syncNows
  /\ loc[p] = "watch"

\* C25: a file larger than 10MB is rejected and moved to the failed folder; it is
\* never queued or sent to the API.
C25_OversizeMovedToFailed ==
  [][\A p \in Files :
       (fileSize[p] > MAX_FILE_SIZE /\ Validates(p)) =>
         /\ loc'[p] = "failed"
         /\ handoffLog' = handoffLog /\ processingQueue' = processingQueue
         /\ inflight' = inflight]_vars

\* the remote call of the last message of p succeeds in this step, for the first time
LastMessageAccepted(p) == messages(p) \notin acked[p] /\ messages(p) \in acked'[p]

\* C26: for a file whose messages all succeed exactly the success disposition the
\* configuration selects is applied (deleted when deleteAfterSync, otherwise moved
\* to the processed folder when moveToProcessed and a processed folder are set,
\* never both), its retry-ledger entry is cleared and the success item and
\* file-synced are emitted.
C26_SuccessDisposition ==
  [][\A p \in Files :
       LastMessageAccepted(p) =>
         /\ loc'[p] = SuccessLoc(loc[p])
         /\ retryCount'[p] = 0
         /\ okCount'[p] = okCount[p] + 1
         /\ failCount'[p] = failCount[p]]_vars

\* the codes a message's DG1 segments carry in field 3
Dg1Codes(message) ==
  LET dg1s == segmentsOf(message, "DG1") IN
  {split(fieldAt(dg1s[i], 3), HL7_COMPONENT_SEPARATOR)[1] : i \in 1..Len(dg1s)} \ {<<>>}

\* the codes a message's FT1 segments carry in the repetitions of field 19
Ft1Codes(message) ==
  LET ft1s == segmentsOf(message, "FT1")
      reps(i) == split(fieldAt(ft1s[i], 19), HL7_REPETITION_SEPARATOR)
  IN UNION {{split(reps(i)[j], HL7_COMPONENT_SEPARATOR)[1] : j \in 1..Len(reps(i))} :
              i \in 1..Len(ft1s)} \ {<<>>}

\* C27: the ICD codes extracted from a charge message that has a PID segment hold no
\* code twice and are, as a set, the field-3 codes of all its DG1 segments together
\* with the codes of all repetitions of field 19 of all its FT1 segments.
C27_IcdCodesAreTheUnion ==
  (codecPc = "parsed" /\ encounter.kind = "encounter"
     /\ parseHL7(rawText).messageType = "DFT^P03") =>
    /\ \A i, j \in 1..Len(encounter.icdCodes) :
         encounter.icdCodes[i] = encounter.icdCodes[j] => i = j
    /\ {encounter.icdCodes[i] : i \in 1..Len(encounter.icdCodes)}
         = Dg1Codes(parseHL7(rawText)) \cup Ft1Codes(parseHL7(rawText))

\* parseName on a PID segment's field 5
parseName(nameField) ==
  LET parts == split(nameField, HL7_COMPONENT_SEPARATOR) IN
  [lastName |-> fieldAt(parts, 0), firstName |-> fieldAt(parts, 1),
   middleName |-> fieldAt(parts, 2)]

\* C28: parsing the text generated for a claim gives back the claim's patient name,
\* one CPT line per billing code, in the claim's order and with the same code, and the
\* claim's diagnosis codes as a set.
C28_RoundTrip ==
  (codecPc = "parsed") =>
    /\ encounter.kind = "encounter"
    /\ parseName(fieldAt(segmentsOf(parseHL7(rawText), "PID")[1], 5)) = exportClaim.patient
    /\ Len(encounter.cptLines) = Len(exportClaim.billingCodes)
    /\ \A i \in 1..Len(exportClaim.billingCodes) :
         encounter.cptLines[i].code = exportClaim.billingCodes[i].code
    /\ {encounter.icdCodes[i] : i \in 1..Len(encounter.icdCodes)}
         = {exportClaim.diagnosisCodes[i] : i \in 1..Len(exportClaim.diagnosisCodes)}

\* the part of C28 about diagnosis codes and the upper-cased name
RoundTripKeepsDiagnosisCodes ==
  (codecPc = "parsed") =>
    /\ encounter.kind = "encounter"
    /\ parseName(fieldAt(segmentsOf(parseHL7(rawText), "PID")[1], 5))
         = [f \in DOMAIN exportClaim.patient |-> toUpperCase(exportClaim.patient[f])]
    /\ {encounter.icdCodes[i] : i \in 1..Len(encounter.icdCodes)}
         = {exportClaim.diagnosisCodes[i] : i \in 1..Len(exportClaim.diagnosisCodes)}

\* C29: a file made of N messages, each starting with an MSH header, is split into N
\* chunks, in the order of the messages, each starting with MSH| and each parsed by
\* parseHL7 into the message type of the message it stands for.
C29_OneChunkPerMessage ==
  (codecPc = "split") =>
    /\ Len(batchMessages) = Len(batchInput)
    /\ \A i \in 1..Len(batchMessages) :
         /\ startsWith(batchMessages[i], <<"MSH", HL7_FIELD_SEPARATOR>>)
         /\ i <= Len(batchInput) =>
              parseHL7(batchMessages[i]).messageType = parseHL7(batchInput[i]).messageType

\* the same, for files in which MSH| occurs only at the start of a message
C29_HoldsWithoutInnerHeader ==
  (codecPc = "split"
     /\ \A i \in 1..Len(batchInput) : Len(splitAtHeaders(batchInput[i])) = 1) =>
    /\ Len(batchMessages) = Len(batchInput)
    /\ \A i \in 1..Len(batchMessages) :
         /\ batchMessages[i] = trim(batchInput[i])
         /\ parseHL7(batchMessages[i]).messageType = parseHL7(batchInput[i]).messageType

FailsNow == {p \in Files : failCount'[p] = failCount[p] + 1}

\* the paths whose retry timer fires in this step
RetryFiresNow == {p \in Files : retryTimers'[p] = retryTimers[p] - 1}

\* C31: a failure of a file whose ledger count is below maxRetries leaves the file
\* where it is, adds exactly one to its ledger count and arms one retry timer; when
\* that timer fires while the file is in the watch folder and the service is not
\* paused, one further processing attempt of the file starts.
C31_RetryBelowMax ==
  [][/\ \A p \in FailsNow :
          retryCount[p] < maxRetries =>
            /\ loc'[p] = loc[p]
            /\ retryCount'[p] = retryCount[p] + 1
            /\ retryTimers'[p] = retryTimers[p] + 1
     /\ \A p \in RetryFiresNow :
          (loc[p] = "watch" /\ ~isPaused) =>
            /\ inflight'[p][1] = inflight[p][1] + 1
            /\ p \in handed']_vars

\* the same, for failures in steps in which no delete or move of a present file failed
C31_HoldsWithoutFsFault ==
  [][/\ \A p \in FailsNow :
          (retryCount[p] < maxRetries /\ fsFaults' = fsFaults) =>
            /\ loc'[p] = loc[p]
            /\ retryCount'[p] = retryCount[p] + 1
            /\ retryTimers'[p] = retryTimers[p] + 1
     /\ \A p \in RetryFiresNow :
          (loc[p] = "watch" /\ ~isPaused) =>
            /\ inflight'[p][1] = inflight[p][1] + 1
            /\ p \in handed']_vars

\* C32: for every path at most one debounce timer is armed in the runtime and it is
\* the one armed by the newest notification for the path (an older one was cancelled);
\* every validation started by a debounce timer was started by the timer of the newest
\* notification for its path.
C32_DebounceRestarts ==
  /\ \A t \in debounceTimers :
       /\ t.id = pendingTimer[t.path]
       /\ t.id = notified[t.path]
  /\ \A p \in Files : Cardinality({t \in debounceTimers : t.path = p}) <= 1
  /\ \A v \in validated : v.id = v.newest

\* a second notification arrived while the first timer was armed, and only the second
\* timer started a validation
C32_Witness ==
  \E p \in Files :
    /\ notified[p] >= 2
    /\ \E v \in validated : v.path = p /\ v.id = 2
    /\ \A v \in validated : v.path = p => v.id # 1

\* C38: while FileWatcherService.stop() has returned and start() has not been called
\* again, no validation queues a file or hands one off for processing.
C38_NothingAfterStop == afterStop = {}

\* the same for the debounce timers alone: none is armed while the watcher is stopped
C38_DebounceTimersCleared == watcher = "null" => debounceTimers = {}

\* how many times validateAndQueueFile queued p
TimesQueued(p) == Cardinality({i \in DOMAIN handoffLog : handoffLog[i] = p})

\* a file validated and not queued has its re-validation timer armed
C33_NeverDiscarded ==
  \A v \in validated :
    (TimesQueued(v.path) = 0 /\ pendingTimer[v.path] = 0) => lockTimers[v.path] > 0

\* once the lock is released the file is eventually queued
C33_EventuallyQueued ==
  \A p \in Files : (p \notin locked /\ lockTimers[p] > 0) ~> (TimesQueued(p) >= 1)

\* no file found locked at a validation is queued twice
C33_QueuedOnce == \A v \in validated : v.locked => TimesQueued(v.path) <= 1

\* the same for the files chokidar announced once
C33_QueuedOnceWhenAnnouncedOnce ==
  \A v \in validated : (v.locked /\ notified[v.path] <= 1) => TimesQueued(v.path) <= 1

\* C33: a file found locked at validation keeps a re-validation timer until it is
\* queued, is eventually queued once its lock is released, and is queued exactly once.
C33_LockedFileQueuedOnce ==
  /\ []C33_NeverDiscarded
  /\ C33_EventuallyQueued
  /\ []C33_QueuedOnce

\* a retry of p is pending or under way
AwaitingRetry(p) == retryTimers[p] > 0 \/ InFlight(p)

\* C34: the retry ledger has an entry for p only while p has failed at least once, is
\* in the watch folder and awaits a retry (its 5 s timer is armed or the retried
\* attempt is under way); a disposed or vanished file has no entry.
C34_LedgerLifetime ==
  \A p \in Files :
    retryCount[p] > 0 => (failCount[p] >= 1 /\ loc[p] = "watch" /\ AwaitingRetry(p))

\* the messages of the file processHL7Message has no case for
UnknownMessages ==
  {i \in 1..Len(fileContent) : parseHL7(fileContent[i]).messageType \notin RecognizedTypes}

\* the remote calls made for message i that succeeded
OkCalls(i) == {k \in 1..Len(run.calls) : run.calls[k].message = i /\ run.calls[k].ok}

FailedCalls == {k \in 1..Len(run.calls) : ~run.calls[k].ok}

\* C35: a message of an unrecognised type gets no remote call and is no error: every
\* count of errorsToday and of the ledger comes from a remote call that failed or from
\* a delete or move of the file that failed, and a file counted as synced has had every
\* message that calls for a remote call accepted, also those after a skipped message.
C35_UnknownTypeSkipped ==
  /\ \A i \in UnknownMessages :
       /\ run.pos # i
       /\ \A k \in 1..Len(run.calls) : run.calls[k].message # i
  /\ run.errorsToday = Cardinality(FailedCalls) + run.fsFaults
  /\ run.retryCount <= Cardinality(FailedCalls) + run.fsFaults
  /\ run.state \in {"retry", "failed"} => run.errorsToday > 0
  /\ run.state = "synced" =>
       /\ UnknownMessages \subseteq run.skipped
       /\ \A i \in 1..Len(fileContent) :
            remoteCallOf(fileContent[i]) # "none" => OkCalls(i) # {}

\* a file whose first message is of an unknown type and whose second is a patient
\* message was synced with one call, for the second
C35_Witness ==
  /\ Len(fileContent) = 2
  /\ UnknownMessages = {1}
  /\ run.state = "synced" /\ run.skipped = {1}
  /\ run.errorsToday = 0
  /\ Len(run.calls) = 1 /\ run.calls[1].message = 2 /\ run.calls[1].ok

\* the messages of a recognised type
RecognizedMessages == (1..Len(fileContent)) \ UnknownMessages

\* C37: a file is counted as synced only if every message of a recognised type
\* produced exactly one successful remote call.
C37_SyncedOnlyIfEveryMessageCalled ==
  run.state = "synced" => \A i \in RecognizedMessages : Cardinality(OkCalls(i)) = 1

\* the same for the files whose recognised messages all carry a PID segment, synced at
\* the first attempt
C37_HoldsWithPidAtFirstAttempt ==
  (/\ run.state = "synced"
   /\ run.attempts = 1
   /\ \A i \in RecognizedMessages :
        segmentsOf(parseHL7(fileContent[i]), "PID") # <<>>)
    => \A i \in RecognizedMessages : Cardinality(OkCalls(i)) = 1

\* both logs within their caps
LogsWithinCap == Len(activityLog) <= SyncActivityCap /\ Len(exportActivity) <= ExportActivityCap

\* what a log holds behind its newest item after an add: all it held, less the oldest
\* item when it was full
KeptItems(log, cap) == IF Len(log) = cap THEN SubSeq(log, 1, cap - 1) ELSE log

\* C40: the sync activity log never holds more than 100 items and the export activity
\* log never more than 50; an add puts the new item first and keeps the items held
\* before in their order, less the oldest when the log was full.
C40_ActivityLogsCapped ==
  /\ []LogsWithinCap
  /\ [][/\ activityLog' # activityLog =>
             /\ activityLog' # <<>>
             /\ Tail(activityLog') = KeptItems(activityLog, SyncActivityCap)
        /\ exportActivity' # exportActivity =>
             /\ exportActivity' # <<>>
             /\ Tail(exportActivity') = KeptItems(exportActivity, ExportActivityCap)]_vars

\* both logs are full and have dropped items: the sync log holds items 3..102
C40_Witness ==
  /\ Len(activityLog) = SyncActivityCap
  /\ Head(activityLog) = SyncActivityCap + 2
  /\ activityLog[SyncActivityCap] = 3
  /\ Len(exportActivity) = ExportActivityCap
  /\ Head(exportActivity).message > ExportActivityCap

ClaimsStage == {"getPendingExports", "confirmExport", "markExported"}
AdtStage == {"getPendingAdtExports", "confirmAdtExport"}

\* the step is a failure of cycle c: the catch of pollForExports or of processExports
\* ran (errorsToday counted a poll, not a record), or the catch of pollForAdtExports
PollFails(c) ==
  \/ /\ polls[c].pc \in {"getPendingExports", "markExported"}
     /\ polls'[c].pc \notin ClaimsStage
     /\ Len(exportActivity') > 0
     /\ exportActivity' # exportActivity
     /\ Head(exportActivity').message \in {"Poll failed", "Export failed"}
  \/ /\ polls[c].pc = "getPendingAdtExports"
     /\ polls'[c].pc = "done"
     /\ adtPollErrors' # adtPollErrors

\* C36: whenever the claims half of a cycle ends, by failure or not, the cycle goes on
\* to its insurance-update request (insurance updates being enabled); a failure of
\* either half leaves every other cycle as it is, and the next tick of the interval
\* can still start its cycle.
C36_PollFailureIsContained ==
  /\ [][\A c \in 1..MaxPolls :
          /\ (polls[c].pc \in ClaimsStage /\ polls'[c].pc \notin ClaimsStage /\ adtEnabled)
               => polls'[c].pc = "getPendingAdtExports"
          /\ PollFails(c) =>
               /\ \A d \in 1..MaxPolls \ {c} : polls'[d] = polls[d]
               /\ pollsStarted' = pollsStarted
               /\ exportPaused' = exportPaused]_vars
  /\ [](pollsStarted < MaxPolls => ENABLED PollTick)

\* the claims poll of the first cycle failed, its insurance-update poll fetched a batch,
\* and the second cycle has issued its claims request
C36_Witness ==
  /\ \E k \in 1..Len(exportActivity) : exportActivity[k].message = "Poll failed"
  /\ \E f \in fetchLog : f.endpoint = "confirm-adt-export" /\ f.poll = 1
  /\ polls[1].pc = "done"
  /\ polls[2].pc = "getPendingExports"
  /\ \A f \in fetchLog : f.poll = 1

\* the file now at path p was written there after an earlier file of that name had
\* been processed and removed
Recreated(p) == loc[p] = "watch" /\ okCount[p] >= 1

\* C39: when chokidar announces a file written at a path whose earlier file was
\* processed and removed, the watcher arms its debounce timer as for any new file.
C39_ReusedPathIsDetected ==
  [][\A p \in Files :
       (p \in pendingAdds /\ p \notin pendingAdds' /\ Recreated(p))
         => p \in pendingFiles']_vars

\* the same for the watcher of services/fileWatcher.ts
C39_HoldsForPlainWatcher ==
  [][\A p \in Files :
       (p \in pendingAdds /\ p \notin pendingAdds' /\ Recreated(p) /\ watcherImpl = "plain")
         => p \in pendingFiles']_vars

\* with the plain watcher the second file at the path is processed as well
C39_SecondFileSynced == \E p \in Files : okCount[p] = 2 /\ watcherImpl = "plain"

\* with the tracked watcher no second file at a path is ever handed off
C39_TrackedNeverHandsOffAgain ==
  watcherImpl = "tracked" => \A p \in Files : TimesQueued(p) <= 1

\* C12: when a claims poll starts, the claims poll of every earlier cycle has
\* completed (fetch, file writes, confirmation), and when an insurance-update poll
\* starts, the insurance-update poll of every other cycle has completed.
C12_PollsDoNotOverlap ==
  [][\A c \in 1..MaxPolls :
       /\ (polls[c].pc = "idle" /\ polls'[c].pc \in ClaimsStage) =>
            \A d \in 1..MaxPolls \ {c} : polls[d].pc \notin ClaimsStage
       /\ (polls[c].pc \in ClaimsStage /\ polls'[c].pc \in AdtStage) =>
            \A d \in 1..MaxPolls \ {c} : polls[d].pc \notin AdtStage]_vars

\* the processing queue is empty between event-loop tasks: every push is followed, in
\* the same task, by the processNextFile call that takes the head
ProcessingQueueDrained == processingQueue = <<>>

====
